---------------------------- MODULE Spec2Model ----------------------------
(***************************************************************************)
(* A model of PoDoFo's PdfVariant and PdfDictionary (PdfVariant.cpp):      *)
(* the tagged union with its dirty, immutable and delayed-load flags, the  *)
(* setters, assignment, comparison, and the dictionary operations.         *)
(*                                                                         *)
(* A variant is a record holding the fields of the C++ object.  The union  *)
(* m_Data is kept as its four members (bBoolValue, nNumber, dNumber,       *)
(* pData); pData holds the pointed-to object itself (copies in the code    *)
(* are deep, so no two variants share a payload) or NullPtr.               *)
(* A double is kept as an integer count of 1/RealScale units, so that      *)
(* fractions, floor() and the int/double conversions are computed.         *)
(* A name or a string's content is a sequence of byte values.              *)
(* pc is the position of each thread inside a call it is making; it is     *)
(* empty while calls are made one at a time.                               *)
(***************************************************************************)
EXTENDS Integers, Sequences, FiniteSets, TLC

VARIABLES v, op, err, ret, pc

vars == <<v, op, err, ret, pc>>

-----------------------------------------------------------------------------
(* Bounds of the model *)

\* integers handed to constructors and setters range over -MaxNum..MaxNum
MaxNum == 1

\* a load hook is run at most this many times (the code runs it once)
MaxHookCalls == 2

\* the input fonts have this many glyphs (maxp.numGlyphs)
NumGlyphs == 5

\* a gidList handed to BuildFont has at most this many entries
MaxGidListLen == 2

\* a page has at most this many content streams
MaxStreams == 3

\* a content stream has at most this many bytes
MaxStreamLen == 2

\* Read is asked for at most this many bytes
MaxRead == 3

\* a table written byte by byte has at most this many bytes
MaxTableLen == 5

\* a double d is stored as the integer d * RealScale
RealScale == 2

-----------------------------------------------------------------------------
(* EPdfDataType *)

ePdfDataType_Bool == "Bool"
ePdfDataType_Number == "Number"
ePdfDataType_Real == "Real"
ePdfDataType_String == "String"
ePdfDataType_HexString == "HexString"
ePdfDataType_Name == "Name"
ePdfDataType_Array == "Array"
ePdfDataType_Dictionary == "Dictionary"
ePdfDataType_Null == "Null"
ePdfDataType_Reference == "Reference"
ePdfDataType_RawData == "RawData"
ePdfDataType_Unknown == "Unknown"

(* EPdfError: the errors the modelled code raises; ErrOk is a normal return *)
ErrOk == "ok"
ePdfError_InvalidDataType == "InvalidDataType"
ePdfError_ChangeOnImmutable == "ChangeOnImmutable"
ePdfError_InvalidHandle == "InvalidHandle"
ePdfError_InternalLogic == "InternalLogic"

\* not a PdfError: the process is killed by an invalid memory access
Crash == "crash"

-----------------------------------------------------------------------------
(* The objects m_Data.pData can point to *)

NullPtr == [type |-> "NULL"]

PdfString(bytes, hex) == [type |-> "PdfString", bytes |-> bytes, hex |-> hex]

PdfName(bytes) == [type |-> "PdfName", bytes |-> bytes]

PdfReference(obj, gen) == [type |-> "PdfReference", obj |-> obj, gen |-> gen]

PdfData(bytes) == [type |-> "PdfData", bytes |-> bytes]

\* items: a sequence of variants
PdfArray(items) ==
    [type |-> "PdfArray", items |-> items, m_bDirty |-> FALSE, m_bImmutable |-> FALSE]

\* PdfDictionary::PdfDictionary(): no keys, clean.  m_mapKeys is a function
\* from the names present to the stored variants.
PdfDictionary ==
    [type |-> "PdfDictionary", m_mapKeys |-> << >>, m_bDirty |-> FALSE,
     m_bImmutable |-> FALSE]

\* PdfName::KeyNull is the empty name
KeyNull == << >>

\* PdfName::GetLength
GetLength(name) == Len(name)

-----------------------------------------------------------------------------
(* PdfVariant: construction *)

\* What no load hook looks like: nothing to load.
NoHook == [m_eDataType |-> ePdfDataType_Unknown, bBoolValue |-> FALSE,
           nNumber |-> 0, dNumber |-> 0, pData |-> NullPtr]

\* A freshly Init()-ed variant.  hook and hookCalls do not exist in the C++
\* object: hook is the content the subclass's DelayedLoadImpl will load, and
\* hookCalls counts the invocations of DelayedLoadImpl on this variant.
NewVariant ==
    [m_eDataType |-> ePdfDataType_Unknown,
     bBoolValue |-> FALSE, nNumber |-> 0, dNumber |-> 0, pData |-> NullPtr,
     m_bDelayedLoadDone |-> TRUE, m_bDirty |-> FALSE, m_bImmutable |-> FALSE,
     hook |-> NoHook, hookCalls |-> 0]

\* PdfVariant::Init(): resets every member; the kind becomes Unknown.
Init_(x) ==
    [x EXCEPT !.m_eDataType = ePdfDataType_Unknown,
              !.bBoolValue = FALSE, !.nNumber = 0, !.dNumber = 0, !.pData = NullPtr,
              !.m_bDelayedLoadDone = TRUE, !.m_bDirty = FALSE, !.m_bImmutable = FALSE]

VariantNull == [NewVariant EXCEPT !.m_eDataType = ePdfDataType_Null]

VariantBool(b) ==
    [NewVariant EXCEPT !.m_eDataType = ePdfDataType_Bool, !.bBoolValue = b]

VariantNumber(l) ==
    [NewVariant EXCEPT !.m_eDataType = ePdfDataType_Number, !.nNumber = l]

VariantReal(d) ==
    [NewVariant EXCEPT !.m_eDataType = ePdfDataType_Real, !.dNumber = d]

VariantString(rsString) ==
    [NewVariant EXCEPT
        !.m_eDataType = IF rsString.hex THEN ePdfDataType_HexString
                        ELSE ePdfDataType_String,
        !.pData = rsString]

VariantName(rName) ==
    [NewVariant EXCEPT !.m_eDataType = ePdfDataType_Name, !.pData = rName]

VariantReference(rRef) ==
    [NewVariant EXCEPT !.m_eDataType = ePdfDataType_Reference, !.pData = rRef]

VariantRawData(rData) ==
    [NewVariant EXCEPT !.m_eDataType = ePdfDataType_RawData, !.pData = rData]

-----------------------------------------------------------------------------
(* Results of operations: the object afterwards and the error raised *)

Ok(x) == [x |-> x, err |-> ErrOk]

Raise(x, e) == [x |-> x, err |-> e]

\* values returned by a getter: err is ErrOk and val the value, or err is raised
Return(val) == [err |-> ErrOk, val |-> val]

Throw(e) == [err |-> e, val |-> FALSE]

-----------------------------------------------------------------------------
(* Delayed loading *)

\* The DelayedLoadImpl of a subclass that enables delayed loading: it
\* materialises the content and returns.  Each invocation is counted.
DelayedLoadImpl(x) ==
    [x EXCEPT !.m_eDataType = x.hook.m_eDataType,
              !.bBoolValue = x.hook.bBoolValue,
              !.nNumber = x.hook.nNumber,
              !.dNumber = x.hook.dNumber,
              !.pData = x.hook.pData,
              !.hookCalls = @ + 1]

\* PdfVariant::AfterDelayedLoad: does nothing
AfterDelayedLoad(x) == x

\* a plausible slip: the done flag is not set after the hook has run
DelayedLoad_FlagNotSet(x) ==
    IF x.m_bDelayedLoadDone THEN x ELSE AfterDelayedLoad(DelayedLoadImpl(x))

\* PdfVariant::DelayedLoad
DelayedLoad(x) ==
    IF x.m_bDelayedLoadDone
    THEN x
    ELSE AfterDelayedLoad([DelayedLoadImpl(x) EXCEPT !.m_bDelayedLoadDone = TRUE])

\* PdfVariant::GetDataType
GetDataType(x) == DelayedLoad(x).m_eDataType

-----------------------------------------------------------------------------
(* Dirty and immutable flags *)

RECURSIVE IsDirty(_)
RECURSIVE PdfDictionary_IsDirty(_)
RECURSIVE PdfArray_IsDirty(_)
RECURSIVE SetDirty(_, _)
RECURSIVE PdfDictionary_SetDirty(_, _)
RECURSIVE PdfArray_SetDirty(_, _)
RECURSIVE SetImmutable(_, _)
RECURSIVE PdfDataType_SetImmutable(_, _)

\* PdfDictionary::IsDirty
PdfDictionary_IsDirty(d) ==
    IF d.m_bDirty
    THEN TRUE
    ELSE \E k \in DOMAIN d.m_mapKeys : IsDirty(d.m_mapKeys[k])

\* PdfArray::IsDirty: the array's own flag, else any element's
PdfArray_IsDirty(a) ==
    IF a.m_bDirty
    THEN TRUE
    ELSE \E i \in DOMAIN a.items : IsDirty(a.items[i])

\* PdfVariant::IsDirty.  It does not run the delayed load.
IsDirty(x) ==
    IF x.m_bDirty
    THEN TRUE
    ELSE IF x.m_eDataType = ePdfDataType_Dictionary /\ x.pData.type = "PdfDictionary"
         THEN PdfDictionary_IsDirty(x.pData)
    ELSE IF x.m_eDataType = ePdfDataType_Array /\ x.pData.type = "PdfArray"
         THEN PdfArray_IsDirty(x.pData)
    ELSE x.m_bDirty

\* PdfDictionary::SetDirty
PdfDictionary_SetDirty(d, bDirty) ==
    IF ~bDirty
    THEN [d EXCEPT !.m_bDirty = bDirty,
                   !.m_mapKeys = [k \in DOMAIN d.m_mapKeys |->
                                     SetDirty(d.m_mapKeys[k], bDirty)]]
    ELSE [d EXCEPT !.m_bDirty = bDirty]

\* PdfArray::SetDirty: like the dictionary's
PdfArray_SetDirty(a, bDirty) ==
    IF ~bDirty
    THEN [a EXCEPT !.m_bDirty = bDirty,
                   !.items = [i \in DOMAIN a.items |-> SetDirty(a.items[i], bDirty)]]
    ELSE [a EXCEPT !.m_bDirty = bDirty]

\* a plausible slip: clearing the flag does not reach the owned container
SetDirty_NoPropagation(x, bDirty) == [x EXCEPT !.m_bDirty = bDirty]

\* PdfVariant::SetDirty.  It does not run the delayed load.  The cases of the
\* switch after Array/Dictionary only break.
SetDirty(x, bDirty) ==
    LET y == [x EXCEPT !.m_bDirty = bDirty]
    IN  IF ~bDirty /\ x.m_eDataType = ePdfDataType_Dictionary
                   /\ x.pData.type = "PdfDictionary"
        THEN [y EXCEPT !.pData = PdfDictionary_SetDirty(x.pData, bDirty)]
        ELSE IF ~bDirty /\ x.m_eDataType = ePdfDataType_Array
                        /\ x.pData.type = "PdfArray"
        THEN [y EXCEPT !.pData = PdfArray_SetDirty(x.pData, bDirty)]
        ELSE y

\* PdfDataType::SetImmutable on an Array or Dictionary: sets the container's
\* flag and marks every current descendant (spec I3).
PdfDataType_SetImmutable(p, bImmutable) ==
    IF p.type = "PdfDictionary"
    THEN [p EXCEPT !.m_bImmutable = bImmutable,
                   !.m_mapKeys = [k \in DOMAIN p.m_mapKeys |->
                                     SetImmutable(p.m_mapKeys[k], bImmutable)]]
    ELSE IF p.type = "PdfArray"
    THEN [p EXCEPT !.m_bImmutable = bImmutable,
                   !.items = [i \in DOMAIN p.items |->
                                 SetImmutable(p.items[i], bImmutable)]]
    ELSE p

\* PdfVariant::SetImmutable.  It does not run the delayed load.
SetImmutable(x, bImmutable) ==
    LET y == [x EXCEPT !.m_bImmutable = bImmutable]
    IN  IF x.m_eDataType \in {ePdfDataType_Array, ePdfDataType_Dictionary}
        THEN [y EXCEPT !.pData = PdfDataType_SetImmutable(x.pData, bImmutable)]
        ELSE y

\* PdfDataType::AssertMutable (of an Array or Dictionary)
PdfDataType_AssertMutable(p) ==
    IF p.m_bImmutable THEN ePdfError_ChangeOnImmutable ELSE ErrOk

\* a plausible slip: the check is missing
AssertMutable_NoCheck(x) == ErrOk

\* PdfVariant::AssertMutable: the error it raises, or ErrOk
AssertMutable(x) ==
    IF x.m_bImmutable THEN ePdfError_ChangeOnImmutable ELSE ErrOk

-----------------------------------------------------------------------------
(* PdfVariant: setters *)

IsBool(x) == GetDataType(x) = ePdfDataType_Bool
IsNumber(x) == GetDataType(x) = ePdfDataType_Number
IsReal(x) == GetDataType(x) = ePdfDataType_Real
IsString(x) == GetDataType(x) = ePdfDataType_String
IsHexString(x) == GetDataType(x) = ePdfDataType_HexString
IsName(x) == GetDataType(x) = ePdfDataType_Name
IsNull(x) == GetDataType(x) = ePdfDataType_Null
IsReference(x) == GetDataType(x) = ePdfDataType_Reference

\* floor() of a double, as an integer
Floor(d) == d \div RealScale

\* static_cast<double>() of an integer
ToDouble(l) == l * RealScale

\* PdfVariant::SetBool
SetBool(x, b) ==
    LET y == DelayedLoad(x)
    IN  IF ~IsBool(y)
        THEN Raise(y, ePdfError_InvalidDataType)
        ELSE IF AssertMutable(y) # ErrOk
        THEN Raise(y, AssertMutable(y))
        ELSE Ok(SetDirty([y EXCEPT !.bBoolValue = b], TRUE))

\* a plausible slip: a number stored in a Real variant turns it into a Number
SetNumber_Retag(x, l) ==
    LET y == DelayedLoad(x)
    IN  IF ~IsReal(y) /\ ~IsNumber(y)
        THEN Raise(y, ePdfError_InvalidDataType)
        ELSE IF AssertMutable(y) # ErrOk
        THEN Raise(y, AssertMutable(y))
        ELSE Ok(SetDirty([y EXCEPT !.nNumber = l,
                                   !.m_eDataType = ePdfDataType_Number], TRUE))

\* PdfVariant::SetNumber
SetNumber(x, l) ==
    LET y == DelayedLoad(x)
    IN  IF ~IsReal(y) /\ ~IsNumber(y)
        THEN Raise(y, ePdfError_InvalidDataType)
        ELSE IF AssertMutable(y) # ErrOk
        THEN Raise(y, AssertMutable(y))
        ELSE IF IsReal(y)
        THEN Ok(SetDirty([y EXCEPT !.dNumber = ToDouble(l)], TRUE))
        ELSE Ok(SetDirty([y EXCEPT !.nNumber = l], TRUE))

\* PdfVariant::SetReal
SetReal(x, d) ==
    LET y == DelayedLoad(x)
    IN  IF ~IsReal(y) /\ ~IsNumber(y)
        THEN Raise(y, ePdfError_InvalidDataType)
        ELSE IF AssertMutable(y) # ErrOk
        THEN Raise(y, AssertMutable(y))
        ELSE IF IsReal(y)
        THEN Ok(SetDirty([y EXCEPT !.dNumber = d], TRUE))
        ELSE Ok(SetDirty([y EXCEPT !.nNumber = Floor(d)], TRUE))

\* PdfVariant::SetName
SetName(x, name) ==
    LET y == DelayedLoad(x)
    IN  IF ~IsName(y)
        THEN Raise(y, ePdfError_InvalidDataType)
        ELSE IF AssertMutable(y) # ErrOk
        THEN Raise(y, AssertMutable(y))
        ELSE Ok(SetDirty([y EXCEPT !.pData = name], TRUE))

\* a plausible slip: the hex flag of the string is not compared with the kind
SetString_AnyFlag(x, str) ==
    LET y == DelayedLoad(x)
    IN  IF ~IsString(y) /\ ~IsHexString(y)
        THEN Raise(y, ePdfError_InvalidDataType)
        ELSE IF AssertMutable(y) # ErrOk
        THEN Raise(y, AssertMutable(y))
        ELSE Ok(SetDirty([y EXCEPT !.pData = str], TRUE))

\* PdfVariant::SetString
SetString(x, str) ==
    LET y == DelayedLoad(x)
        dataType == GetDataType(y)
    IN  IF (str.hex /\ dataType # ePdfDataType_HexString)
            \/ (~str.hex /\ dataType # ePdfDataType_String)
        THEN Raise(y, ePdfError_InvalidDataType)
        ELSE IF AssertMutable(y) # ErrOk
        THEN Raise(y, AssertMutable(y))
        ELSE Ok(SetDirty([y EXCEPT !.pData = str], TRUE))

\* PdfVariant::SetReference: the set of results the call can have.  The
\* kind test raises when the variant IS a Reference.  For every other kind
\* the store `*((PdfReference*)m_Data.pData) = ref` is undefined behaviour:
\* pData is null (Null, Unknown), or the bits of a bool, integer or double
\* (Bool, Number, Real), or points to an object of another class.  What can
\* follow: the process is killed; or the store lands on the object pData
\* points to, which then holds the reference while the kind is what it was;
\* or it lands elsewhere and the variant looks untouched.  SetDirty(true)
\* follows unless the process was killed.
SetReference(x, ref) ==
    LET y == DelayedLoad(x)
    IN  IF IsReference(y)
        THEN {Raise(y, ePdfError_InvalidDataType)}
        ELSE IF AssertMutable(y) # ErrOk
        THEN {Raise(y, AssertMutable(y))}
        ELSE {Raise(y, Crash), Ok(SetDirty(y, TRUE))}
             \cup (IF y.pData = NullPtr THEN {}
                   ELSE {Ok(SetDirty([y EXCEPT !.pData = ref], TRUE))})

-----------------------------------------------------------------------------
(* PdfVariant: Clear, assignment, copy construction *)

\* PdfVariant::Clear: frees the payload and calls Init().  It checks nothing.
Clear(x) == Init_(x)

RECURSIVE Assign(_, _)
RECURSIVE CopyCtor(_)
RECURSIVE PdfDictionary_Copy(_)
RECURSIVE PdfArray_Copy(_)

\* PdfDictionary::PdfDictionary(const PdfDictionary&) with operator=: the map
\* is copied entry by entry (each stored object copy-constructed), the base
\* class part (the immutable flag) is assigned, and the copy is clean.
PdfDictionary_Copy(rhs) ==
    [type |-> "PdfDictionary",
     m_mapKeys |-> [k \in DOMAIN rhs.m_mapKeys |-> CopyCtor(rhs.m_mapKeys[k])],
     m_bDirty |-> FALSE,
     m_bImmutable |-> rhs.m_bImmutable]

\* PdfArray::PdfArray(const PdfArray&): a deep copy, like the dictionary's
PdfArray_Copy(rhs) ==
    [type |-> "PdfArray",
     items |-> [i \in DOMAIN rhs.items |-> CopyCtor(rhs.items[i])],
     m_bDirty |-> FALSE,
     m_bImmutable |-> rhs.m_bImmutable]

\* The state of the target after PdfVariant::operator=.  rhs is loaded first
\* by rhs.DelayedLoad(); the target is cleared without any check.
Assign(x, rhs) ==
    LET c == Clear(x)
        r == DelayedLoad(rhs)
        t == r.m_eDataType
        y == IF t = ePdfDataType_Dictionary
             THEN [c EXCEPT !.m_eDataType = t,
                            !.pData = IF r.pData # NullPtr
                                      THEN PdfDictionary_Copy(r.pData) ELSE @]
             ELSE IF t = ePdfDataType_Array
             THEN [c EXCEPT !.m_eDataType = t,
                            !.pData = IF r.pData # NullPtr
                                      THEN PdfArray_Copy(r.pData) ELSE @]
             ELSE IF t \in {ePdfDataType_Reference, ePdfDataType_Name,
                            ePdfDataType_String, ePdfDataType_HexString,
                            ePdfDataType_RawData}
             THEN [c EXCEPT !.m_eDataType = t, !.pData = r.pData]
             ELSE IF t \in {ePdfDataType_Bool, ePdfDataType_Null,
                            ePdfDataType_Number, ePdfDataType_Real}
             THEN [c EXCEPT !.m_eDataType = t,
                            !.bBoolValue = r.bBoolValue,
                            !.nNumber = r.nNumber,
                            !.dNumber = r.dNumber,
                            !.pData = r.pData]
             ELSE [c EXCEPT !.m_eDataType = t]
    IN  SetDirty(y, TRUE)

\* PdfVariant::PdfVariant(const PdfVariant&)
CopyCtor(rhs) == SetDirty(Assign(NewVariant, rhs), FALSE)

\* PdfVariant::PdfVariant(const PdfArray&)
VariantArray(rArray) ==
    [NewVariant EXCEPT !.m_eDataType = ePdfDataType_Array,
                       !.pData = PdfArray_Copy(rArray)]

\* PdfVariant::PdfVariant(const PdfDictionary&)
VariantDictionary(rObj) ==
    [NewVariant EXCEPT !.m_eDataType = ePdfDataType_Dictionary,
                       !.pData = PdfDictionary_Copy(rObj)]

-----------------------------------------------------------------------------
(* PdfVariant: getters.  Each runs the delayed load first. *)

GetBool(x) ==
    IF ~IsBool(x) THEN Throw(ePdfError_InvalidDataType)
    ELSE Return(DelayedLoad(x).bBoolValue)

GetNumber(x) ==
    IF ~IsReal(x) /\ ~IsNumber(x) THEN Throw(ePdfError_InvalidDataType)
    ELSE IF IsReal(x) THEN Return(Floor(DelayedLoad(x).dNumber))
    ELSE Return(DelayedLoad(x).nNumber)

GetReal(x) ==
    IF ~IsReal(x) /\ ~IsNumber(x) THEN Throw(ePdfError_InvalidDataType)
    ELSE IF IsReal(x) THEN Return(DelayedLoad(x).dNumber)
    ELSE Return(ToDouble(DelayedLoad(x).nNumber))

GetString(x) ==
    IF ~IsString(x) /\ ~IsHexString(x) THEN Throw(ePdfError_InvalidDataType)
    ELSE Return(DelayedLoad(x).pData)

GetName(x) ==
    IF ~IsName(x) THEN Throw(ePdfError_InvalidDataType)
    ELSE Return(DelayedLoad(x).pData)

GetReference(x) ==
    IF ~IsReference(x) THEN Throw(ePdfError_InvalidDataType)
    ELSE Return(DelayedLoad(x).pData)

\* PdfVariant::GetArray with GetArray_NoDL
GetArray(x) ==
    IF DelayedLoad(x).m_eDataType # ePdfDataType_Array
    THEN Throw(ePdfError_InvalidDataType)
    ELSE Return(DelayedLoad(x).pData)

\* PdfVariant::GetDictionary with GetDictionary_NoDL
GetDictionary(x) ==
    IF DelayedLoad(x).m_eDataType # ePdfDataType_Dictionary
    THEN Throw(ePdfError_InvalidDataType)
    ELSE Return(DelayedLoad(x).pData)

-----------------------------------------------------------------------------
(* PdfDictionary: keys *)

\* PdfName::operator<: byte-wise lexicographic order
RECURSIVE NameLess(_, _)
NameLess(a, b) ==
    IF Len(b) = 0 THEN FALSE
    ELSE IF Len(a) = 0 THEN TRUE
    ELSE IF Head(a) # Head(b) THEN Head(a) < Head(b)
    ELSE NameLess(Tail(a), Tail(b))

\* The keys of a std::map<PdfName, PdfObject> in iteration order
RECURSIVE SortedKeys(_)
SortedKeys(keys) ==
    IF keys = {} THEN << >>
    ELSE LET first == CHOOSE k \in keys : \A o \in keys \ {k} : NameLess(k, o)
         IN  <<first>> \o SortedKeys(keys \ {first})

\* PdfDictionary::AddKey.  The dictionary has no owner.  A new entry holds a
\* copy-constructed object; an existing entry is assigned to.
PdfDictionary_AddKey(d, identifier, rObject) ==
    IF PdfDataType_AssertMutable(d) # ErrOk
    THEN Raise(d, PdfDataType_AssertMutable(d))
    ELSE IF identifier \in DOMAIN d.m_mapKeys
    THEN Ok([d EXCEPT !.m_mapKeys[identifier] = Assign(@, rObject),
                      !.m_bDirty = TRUE])
    ELSE Ok([d EXCEPT !.m_mapKeys = [k \in DOMAIN d.m_mapKeys \cup {identifier} |->
                                        IF k = identifier THEN CopyCtor(rObject)
                                        ELSE d.m_mapKeys[k]],
                      !.m_bDirty = TRUE])

\* PdfDictionary::getKey: the stored object, or NullPtr
PdfDictionary_getKey(d, key) ==
    IF GetLength(key) = 0 THEN NullPtr
    ELSE IF key \notin DOMAIN d.m_mapKeys THEN NullPtr
    ELSE d.m_mapKeys[key]

\* PdfDictionary::HasKey
PdfDictionary_HasKey(d, key) == key \in DOMAIN d.m_mapKeys

\* PdfDictionary::RemoveKey
PdfDictionary_RemoveKey(d, identifier) ==
    IF PdfDataType_AssertMutable(d) # ErrOk
    THEN Raise(d, PdfDataType_AssertMutable(d))
    ELSE IF identifier \notin DOMAIN d.m_mapKeys
    THEN Ok(d)
    ELSE Ok([d EXCEPT !.m_mapKeys = [k \in DOMAIN d.m_mapKeys \ {identifier} |->
                                        d.m_mapKeys[k]],
                      !.m_bDirty = TRUE])

\* PdfDictionary::Clear
PdfDictionary_Clear(d) ==
    IF PdfDataType_AssertMutable(d) # ErrOk
    THEN Raise(d, PdfDataType_AssertMutable(d))
    ELSE IF DOMAIN d.m_mapKeys # {}
    THEN Ok([d EXCEPT !.m_mapKeys = << >>, !.m_bDirty = TRUE])
    ELSE Ok(d)

-----------------------------------------------------------------------------
(* Comparison.  A comparison returns EqTrue or EqFalse, raises an error      *)
(* (the result is the error's name), or never returns (Diverges).            *)

EqTrue == "true"
EqFalse == "false"
Diverges == "diverges"

Truth(b) == IF b THEN EqTrue ELSE EqFalse

\* !(a == b): an error or a divergence of == is one of !=
Negate(r) == IF r = EqTrue THEN EqFalse ELSE IF r = EqFalse THEN EqTrue ELSE r

\* PdfString::operator==: content bytes and hex flag both match
PdfString_Eq(a, b) == a.bytes = b.bytes /\ a.hex = b.hex

\* PdfName::operator==
PdfName_Eq(a, b) == a.bytes = b.bytes

\* PdfReference::operator==
PdfReference_Eq(a, b) == a.obj = b.obj /\ a.gen = b.gen

\* The iterator after one pass of the loop of PdfDictionary::operator==:
\* thisIt and rhsIt are const and the loop body has no increment.
LoopAdvance(it) == it

RECURSIVE VariantEq(_, _, _)
RECURSIVE PdfDictionary_EqLoop(_, _, _, _, _)
RECURSIVE PdfArray_EqFrom(_, _, _, _)

\* The while loop of PdfDictionary::operator==, entered with the iterators
\* at positions thisIt and rhsIt of the sorted key sequences.  A pass that
\* neither returns nor moves an iterator is followed by the same pass again.
PdfDictionary_EqLoop(l, r, thisIt, rhsIt, same) ==
    LET lk == SortedKeys(DOMAIN l.m_mapKeys)
        rk == SortedKeys(DOMAIN r.m_mapKeys)
        thisEnd == Len(lk) + 1
        rhsEnd == Len(rk) + 1
    IN  IF thisIt # thisEnd /\ rhsIt # rhsEnd
        THEN IF lk[thisIt] # rk[rhsIt]
             THEN EqFalse
             ELSE LET ne == Negate(VariantEq(l.m_mapKeys[lk[thisIt]],
                                             r.m_mapKeys[rk[rhsIt]], same))
                  IN  IF ne = EqTrue THEN EqFalse
                      ELSE IF ne # EqFalse THEN ne
                      ELSE IF LoopAdvance(thisIt) = thisIt /\ LoopAdvance(rhsIt) = rhsIt
                      THEN Diverges
                      ELSE PdfDictionary_EqLoop(l, r, LoopAdvance(thisIt),
                                                LoopAdvance(rhsIt), same)
        ELSE IF thisIt # thisEnd \/ rhsIt # rhsEnd
        THEN ePdfError_InternalLogic
        ELSE EqTrue

\* PdfDictionary::operator==.  same: both operands are the same object.
PdfDictionary_Eq(l, r, same) ==
    IF same THEN EqTrue
    ELSE IF Cardinality(DOMAIN l.m_mapKeys) # Cardinality(DOMAIN r.m_mapKeys)
    THEN EqFalse
    ELSE PdfDictionary_EqLoop(l, r, 1, 1, same)

\* PdfArray::operator==: element-wise, stopping at the first difference
PdfArray_EqFrom(l, r, i, same) ==
    IF i > Len(l.items) THEN EqTrue
    ELSE LET e == VariantEq(l.items[i], r.items[i], same)
         IN  IF e # EqTrue THEN e ELSE PdfArray_EqFrom(l, r, i + 1, same)

PdfArray_Eq(l, r, same) ==
    IF Len(l.items) # Len(r.items) THEN EqFalse
    ELSE PdfArray_EqFrom(l, r, 1, same)

\* A catch block that throws every error again
Catch_Rethrow(r) == r

\* The catch block of PdfVariant::operator==: InvalidDataType becomes false,
\* any other error is thrown again
Catch(r) == IF r = ePdfError_InvalidDataType THEN EqFalse ELSE r

\* `lhs == rhs` on two getter results inside the try block
Compare(lhs, rhs, eq) ==
    IF lhs.err # ErrOk THEN lhs.err
    ELSE IF rhs.err # ErrOk THEN rhs.err
    ELSE eq

\* PdfVariant::operator==.  same: rhs is the object itself.
VariantEq(x, rhs, same) ==
    LET y == DelayedLoad(x)
        t == y.m_eDataType
    IN  IF t = ePdfDataType_Bool
        THEN Catch(Compare(GetBool(y), GetBool(rhs),
                           Truth(GetBool(y).val = GetBool(rhs).val)))
        ELSE IF t = ePdfDataType_Number
        THEN Catch(Compare(GetNumber(y), GetNumber(rhs),
                           Truth(GetNumber(y).val = GetNumber(rhs).val)))
        ELSE IF t = ePdfDataType_Real
        THEN Catch(Compare(GetReal(y), GetReal(rhs),
                           Truth(GetReal(y).val = GetReal(rhs).val)))
        ELSE IF t \in {ePdfDataType_String, ePdfDataType_HexString}
        THEN Catch(Compare(GetString(y), GetString(rhs),
                           Truth(PdfString_Eq(GetString(y).val, GetString(rhs).val))))
        ELSE IF t = ePdfDataType_Name
        THEN Catch(Compare(GetName(y), GetName(rhs),
                           Truth(PdfName_Eq(GetName(y).val, GetName(rhs).val))))
        ELSE IF t = ePdfDataType_Array
        THEN Catch(Compare(GetArray(y), GetArray(rhs),
                           PdfArray_Eq(GetArray(y).val, GetArray(rhs).val, same)))
        ELSE IF t = ePdfDataType_Dictionary
        THEN Catch(Compare(GetDictionary(y), GetDictionary(rhs),
                           PdfDictionary_Eq(GetDictionary(y).val,
                                            GetDictionary(rhs).val, same)))
        ELSE IF t = ePdfDataType_Null
        THEN Truth(IsNull(rhs))
        ELSE IF t = ePdfDataType_Reference
        THEN Catch(Compare(GetReference(y), GetReference(rhs),
                           Truth(PdfReference_Eq(GetReference(y).val,
                                                 GetReference(rhs).val))))
        ELSE ePdfError_InvalidDataType

-----------------------------------------------------------------------------
(* PdfVariant::Write: the checks it makes on the variant.  What it sends   *)
(* to the device is not part of the variant's state.                       *)

Write(x) ==
    LET y == DelayedLoad(x)
    IN  IF y.m_eDataType \in {ePdfDataType_HexString, ePdfDataType_String,
                              ePdfDataType_Array, ePdfDataType_Dictionary,
                              ePdfDataType_Name, ePdfDataType_RawData}
           /\ y.pData = NullPtr
        THEN Raise(y, ePdfError_InvalidHandle)
        ELSE IF y.m_eDataType = ePdfDataType_Unknown
        THEN Raise(y, ePdfError_InvalidDataType)
        ELSE Ok(y)

-----------------------------------------------------------------------------
(* Looking a key up through indirect references and /Parent.  `objects` is  *)
(* the owner's table of indirect objects: a function from object numbers to *)
(* the objects.                                                             *)

\* the name /Parent
KeyParent == <<80, 97, 114, 101, 110, 116>>

\* PdfOwnedDataType::GetIndirectObject: the object the reference names, or
\* null when the owner has none under that number
GetIndirectObject(objects, ref) ==
    IF ref.obj \in DOMAIN objects THEN objects[ref.obj] ELSE NullPtr

\* PdfDictionary::findKey
PdfDictionary_findKey(objects, d, key) ==
    LET obj == PdfDictionary_getKey(d, key)
    IN  IF obj # NullPtr
        THEN IF IsReference(obj)
             THEN GetIndirectObject(objects, GetReference(obj).val)
             ELSE obj
        ELSE NullPtr

\* in place of a returned pointer: the call does not return
NeverReturns == [type |-> "diverges"]

RECURSIVE PdfDictionary_findKeyParent(_, _, _, _)
\* PdfDictionary::findKeyParent.  pending holds the dictionaries whose call
\* of findKeyParent(key) has not returned yet; the function keeps no such
\* record.  A call on a dictionary that is in pending makes the calls that
\* led to it over again, without end: the result is NeverReturns.
PdfDictionary_findKeyParent(objects, d, key, pending) ==
    LET obj == PdfDictionary_findKey(objects, d, key)
        parent == PdfDictionary_findKey(objects, d, KeyParent)
    IN  IF d \in pending THEN NeverReturns
        ELSE IF obj # NullPtr THEN obj
        ELSE IF parent = NullPtr THEN NullPtr
        ELSE IF GetDataType(parent) = ePdfDataType_Dictionary
        THEN PdfDictionary_findKeyParent(objects, GetDictionary(parent).val, key,
                                         pending \cup {d})
        ELSE NullPtr

-----------------------------------------------------------------------------
(* What Write sends to the output device: a sequence of tokens.  [lit |-> s] *)
(* is a string literal of the code, [name |-> bytes] a name written by      *)
(* PdfName::Write, [int |-> n] and [real |-> d, compact |-> b] a printed    *)
(* number, [data |-> p] what the Write of a payload object sends.           *)

\* PdfName::KeyType is /Type
KeyType == <<84, 121, 112, 101>>

\* EPdfWriteMode: the two flags the code tests
ePdfWriteMode_Compact == "Compact"
ePdfWriteMode_Clean == "Clean"

Lit(s) == <<[lit |-> s]>>

RECURSIVE WriteOutput(_, _, _)
RECURSIVE PdfDictionary_WriteLoop(_, _, _, _)

RECURSIVE PdfDictionary_WriteLoop_SkipStop(_, _, _, _)
\* a plausible slip: the entry of keyStop is passed over and the loop goes on
PdfDictionary_WriteLoop_SkipStop(d, itKeys, eWriteMode, keyStop) ==
    LET keys == SortedKeys(DOMAIN d.m_mapKeys)
        clean == ePdfWriteMode_Clean \in eWriteMode
    IN  IF itKeys > Len(keys) THEN [out |-> << >>, returned |-> FALSE]
        ELSE IF keys[itKeys] = KeyType \/ keys[itKeys] = keyStop
        THEN PdfDictionary_WriteLoop_SkipStop(d, itKeys + 1, eWriteMode, keyStop)
        ELSE LET rest == PdfDictionary_WriteLoop_SkipStop(d, itKeys + 1,
                                                          eWriteMode, keyStop)
             IN  [rest EXCEPT !.out =
                     <<[name |-> keys[itKeys]]>>
                     \o (IF clean THEN Lit(" ") ELSE << >>)
                     \o WriteOutput(d.m_mapKeys[keys[itKeys]], eWriteMode, KeyNull)
                     \o (IF clean THEN Lit("\n") ELSE << >>)
                     \o @]

\* The while loop of PdfDictionary::Write from the entry at position itKeys
\* of the sorted keys on: the tokens sent, and whether the function returned
\* from inside the loop (at keyStop).
PdfDictionary_WriteLoop(d, itKeys, eWriteMode, keyStop) ==
    LET keys == SortedKeys(DOMAIN d.m_mapKeys)
        clean == ePdfWriteMode_Clean \in eWriteMode
    IN  IF itKeys > Len(keys) THEN [out |-> << >>, returned |-> FALSE]
        ELSE IF keys[itKeys] = KeyType
        THEN PdfDictionary_WriteLoop(d, itKeys + 1, eWriteMode, keyStop)
        ELSE IF keyStop # KeyNull /\ GetLength(keyStop) # 0 /\ keys[itKeys] = keyStop
        THEN [out |-> << >>, returned |-> TRUE]
        ELSE LET rest == PdfDictionary_WriteLoop(d, itKeys + 1, eWriteMode, keyStop)
             IN  [rest EXCEPT !.out =
                     <<[name |-> keys[itKeys]]>>
                     \o (IF clean THEN Lit(" ") ELSE << >>)
                     \o WriteOutput(d.m_mapKeys[keys[itKeys]], eWriteMode, KeyNull)
                     \o (IF clean THEN Lit("\n") ELSE << >>)
                     \o @]

\* a plausible slip: /Type is written where the sorted order puts it
PdfDictionary_Write_TypeInPlace(d, eWriteMode, keyStop) ==
    LET keys == SortedKeys(DOMAIN d.m_mapKeys)
    IN  Lit("<<")
        \o [i \in 1..Len(keys) |->
               IF keys[i] = KeyType THEN [lit |-> "/Type"] ELSE [name |-> keys[i]]]
        \o Lit(">>")

\* PdfDictionary::Write
PdfDictionary_Write(d, eWriteMode, keyStop) ==
    LET clean == ePdfWriteMode_Clean \in eWriteMode
        open == Lit(IF clean THEN "<<\n" ELSE "<<")
        type == IF PdfDictionary_HasKey(d, KeyType)
                THEN Lit(IF clean THEN "/Type " ELSE "/Type")
                     \o WriteOutput(d.m_mapKeys[KeyType], eWriteMode, KeyNull)
                     \o (IF clean THEN Lit("\n") ELSE << >>)
                ELSE << >>
        loop == PdfDictionary_WriteLoop(d, 1, eWriteMode, keyStop)
    IN  IF keyStop # KeyNull /\ GetLength(keyStop) # 0 /\ keyStop = KeyType
        THEN open
        ELSE open \o type \o loop.out \o (IF loop.returned THEN << >> ELSE Lit(">>"))

\* PdfVariant::Write, after its checks have passed: the tokens sent
WriteOutput(x, eWriteMode, keyStop) ==
    LET y == DelayedLoad(x)
        space == IF ePdfWriteMode_Compact \in eWriteMode THEN Lit(" ") ELSE << >>
    IN  CASE y.m_eDataType = ePdfDataType_Bool ->
                space \o Lit(IF y.bBoolValue THEN "true" ELSE "false")
          [] y.m_eDataType = ePdfDataType_Number -> space \o <<[int |-> y.nNumber]>>
          [] y.m_eDataType = ePdfDataType_Real ->
                space \o <<[real |-> y.dNumber,
                            compact |-> ePdfWriteMode_Compact \in eWriteMode]>>
          [] y.m_eDataType = ePdfDataType_Null -> space \o Lit("null")
          [] y.m_eDataType = ePdfDataType_Dictionary ->
                PdfDictionary_Write(y.pData, eWriteMode, keyStop)
          [] OTHER -> <<[data |-> y.pData]>>

-----------------------------------------------------------------------------
(* PdfFontTrueTypeSubset (PdfFontTrueTypeSubset.cpp).  The input font is    *)
(* kept as what the code reads from the device: directory, the table        *)
(* directory in file order (records Tag, Offset, Length); numGlyphs from    *)
(* maxp; numberOfHMetrics from hhea; indexToLocFormat from head; and for    *)
(* every glyph id its length in glyf (from loca) and the glyph ids of its   *)
(* components (empty for a simple glyph, whose numberOfContours is >= 0);   *)
(* hmtx, the hmtx table as its sequence of 16-bit words; flags, for every   *)
(* glyph id the flags words of its component records.  A compound glyph is  *)
(* 10 bytes of header and then its component records: flags (2 bytes),      *)
(* glyph index (2), two arguments (2 or 4) and a transformation (0 to 8).   *)

PdfErrorCode_UnsupportedFontFormat == "UnsupportedFontFormat"
PdfErrorCode_InvalidEnumValue == "InvalidEnumValue"

\* enum class ReqTable: the mask `all`, as the set of the tags it stands for
ReqTable_all == {"head", "hhea", "loca", "maxp", "glyf", "hmtx"}

\* PdfFontTrueTypeSubset::PdfFontTrueTypeSubset
PdfFontTrueTypeSubset(device) ==
    [m_device |-> device, m_isLongLoca |-> FALSE, m_glyphCount |-> 0,
     m_HMetricsCount |-> 0, m_tables |-> << >>, m_glyphDatas |-> << >>,
     m_orderedGIDs |-> << >>]

\* the result of a member function: the object afterwards and the error
Result(s, e) == [s |-> s, err |-> e]

\* PdfFontTrueTypeSubset::InitTables
InitTables(s) ==
    LET dir == s.m_device.directory
        kept(tbl) ==
            \/ tbl.Tag \in ReqTable_all \cup {"cvt ", "fpgm", "prep"}
            \/ tbl.Tag = "post" /\ ~(tbl.Length < 32)
        pushed == SelectSeq(dir, kept)
        stored == [i \in DOMAIN pushed |->
                     IF pushed[i].Tag = "post" THEN [pushed[i] EXCEPT !.Length = 32]
                     ELSE pushed[i]]
        tableMask == {dir[i].Tag : i \in DOMAIN dir} \cap ReqTable_all
    IN  Result([s EXCEPT !.m_tables = @ \o stored],
               IF tableMask \cap ReqTable_all = {}
               THEN PdfErrorCode_UnsupportedFontFormat ELSE ErrOk)

\* PdfFontTrueTypeSubset::GetTableOffset
GetTableOffset(s, tag) ==
    LET found == {i \in DOMAIN s.m_tables : s.m_tables[i].Tag = tag}
    IN  IF found = {} THEN Throw(ePdfError_InternalLogic)
        ELSE Return(s.m_tables[CHOOSE i \in found : \A j \in found : i <= j].Offset)

\* PdfFontTrueTypeSubset::GetNumberOfGlyphs
GetNumberOfGlyphs(s) ==
    IF GetTableOffset(s, "maxp").err # ErrOk
    THEN Result(s, GetTableOffset(s, "maxp").err)
    ELSE IF GetTableOffset(s, "hhea").err # ErrOk
    THEN Result([s EXCEPT !.m_glyphCount = s.m_device.numGlyphs],
                GetTableOffset(s, "hhea").err)
    ELSE Result([s EXCEPT !.m_glyphCount = s.m_device.numGlyphs,
                          !.m_HMetricsCount = s.m_device.numberOfHMetrics], ErrOk)

\* PdfFontTrueTypeSubset::SeeIfLongLocaOrNot
SeeIfLongLocaOrNot(s) ==
    IF GetTableOffset(s, "head").err # ErrOk
    THEN Result(s, GetTableOffset(s, "head").err)
    ELSE Result([s EXCEPT !.m_isLongLoca = (s.m_device.indexToLocFormat # 0)], ErrOk)

\* PdfFontTrueTypeSubset::Init
Init_Subset(s) ==
    LET a == InitTables(s)
        b == GetNumberOfGlyphs(a.s)
    IN  IF a.err # ErrOk THEN a
        ELSE IF b.err # ErrOk THEN b
        ELSE SeeIfLongLocaOrNot(b.s)

\* flags & mask # 0, for a mask of one bit
Bit(flags, mask) == (flags \div mask) % 2 = 1

\* F(x), in which x is evaluated once, before F is applied to its value: a
\* statement `auto r = x;` followed by code that uses r
Once(F(_), x) == CHOOSE r \in {F(y) : y \in {x}} : TRUE

\* TryAdvanceCompoundOffset: whether there are more components, and the
\* offset afterwards
TryAdvanceCompoundOffset(offset, flags) ==
    IF ~Bit(flags, 32) THEN [ok |-> FALSE, offset |-> offset]
    ELSE [ok |-> TRUE,
          offset |-> offset + (IF Bit(flags, 1) THEN 4 * 2 ELSE 3 * 2)
                            + (IF Bit(flags, 8) THEN 2
                               ELSE IF Bit(flags, 64) THEN 2 * 2
                               ELSE IF Bit(flags, 128) THEN 4 * 2
                               ELSE 0)]

\* the number of bytes of a component record of the input, by its flags
RecordSize(flags) ==
    4 + (IF Bit(flags, 1) THEN 4 ELSE 2)
      + (IF Bit(flags, 8) THEN 2 ELSE IF Bit(flags, 64) THEN 4
         ELSE IF Bit(flags, 128) THEN 8 ELSE 0)

RECURSIVE RecordOffset(_, _)
\* where the k-th component record of a glyph begins, counted from the end
\* of the glyph's 10-byte header
RecordOffset(flags, k) ==
    IF k = 1 THEN 0 ELSE RecordOffset(flags, k - 1) + RecordSize(flags[k - 1])

\* PdfFontTrueTypeSubset::ReadGlyphCompoundData for glyph gid, at `offset`
\* past the glyph's header: the flags and the glyph index of the record
\* that begins there (zeros where no record begins)
ReadGlyphCompoundData(device, gid, offset) ==
    LET at == {k \in DOMAIN device.components[gid] :
                  RecordOffset(device.flags[gid], k) = offset}
    IN  IF at = {} THEN [Flags |-> 0, GlyphIndex |-> 0]
        ELSE [Flags |-> device.flags[gid][CHOOSE k \in at : TRUE],
              GlyphIndex |-> device.components[gid][CHOOSE k \in at : TRUE]]

RECURSIVE CompoundRecords(_, _, _)
\* the loop `while (true)` of LoadCompound and of LoadGlyphs over the
\* component records of glyph gid, from `offset` on: the offset and the
\* glyph index of every record read
CompoundRecords(device, gid, offset) ==
    LET cmpData == ReadGlyphCompoundData(device, gid, offset)
        next == TryAdvanceCompoundOffset(offset, cmpData.Flags)
    IN  <<[offset |-> offset, GlyphIndex |-> cmpData.GlyphIndex]>>
        \o (IF next.ok THEN CompoundRecords(device, gid, next.offset) ELSE << >>)

\* the glyph ids LoadCompound reads for glyph gid; none for a simple glyph
\* (numberOfContours >= 0)
ComponentGids(device, gid) ==
    IF device.components[gid] = << >> THEN << >>
    ELSE [i \in DOMAIN CompoundRecords(device, gid, 0) |->
             CompoundRecords(device, gid, 0)[i].GlyphIndex]

RECURSIVE LoadGID(_, _)
RECURSIVE LoadCompound(_, _, _)

\* PdfFontTrueTypeSubset::LoadCompound, from the component at position i
\* of the glyph's component records on
LoadCompound(s, components, i) ==
    IF i > Len(components) THEN Result(s, ErrOk)
    ELSE Once(LAMBDA r : IF r.err # ErrOk THEN r
                         ELSE LoadCompound(r.s, components, i + 1),
              LoadGID(s, components[i]))

\* PdfFontTrueTypeSubset::LoadGID
LoadGID(s, gid) ==
    IF gid >= s.m_glyphCount THEN Result(s, ePdfError_InternalLogic)
    ELSE IF gid \in DOMAIN s.m_glyphDatas THEN Result(s, ErrOk)
    ELSE LET components == ComponentGids(s.m_device, gid)
             glyphData == [GlyphLength |-> s.m_device.glyphLength[gid],
                           IsCompound |-> components # << >>,
                           CompoundComponents |-> << >>]
             s1 == [s EXCEPT !.m_glyphDatas = (gid :> glyphData) @@ @]
         IN  IF glyphData.IsCompound
             THEN Once(LAMBDA loaded : LoadCompound(loaded, components, 1), s1)
             ELSE Result(s1, ErrOk)

RECURSIVE LoadGIDs(_, _, _)
\* the loop `for (unsigned gid : gidList) LoadGID(ctx, gid);` from position i
LoadGIDs(s, gidList, i) ==
    IF i > Len(gidList) THEN Result(s, ErrOk)
    ELSE Once(LAMBDA r : IF r.err # ErrOk THEN r
                         ELSE LoadGIDs(r.s, gidList, i + 1),
              LoadGID(s, gidList[i]))

RECURSIVE MapGIDs(_, _, _)
\* LoadGlyphs: `glyphIndexMap.insert({ gid, size })` for the GIDs of gidList
\* from position i on; insert leaves an existing entry alone
MapGIDs(glyphIndexMap, gidList, i) ==
    IF i > Len(gidList) THEN glyphIndexMap
    ELSE MapGIDs(IF gidList[i] \in DOMAIN glyphIndexMap THEN glyphIndexMap
                 ELSE (gidList[i] :> Cardinality(DOMAIN glyphIndexMap)) @@ glyphIndexMap,
                 gidList, i + 1)

RECURSIVE MapComponents(_, _, _)
\* LoadGlyphs: the loop over m_glyphDatas, in the order of the map (by
\* ascending glyph id), for the loaded glyph ids in `gids`.  st holds
\* m_glyphDatas, m_orderedGIDs and glyphIndexMap.  Every component of a
\* compound glyph is given the next index unless it has one, and is then
\* appended to m_orderedGIDs; the component record takes the index.
MapComponents(st, gids, device) ==
    IF gids = {} THEN st
    ELSE LET gid == CHOOSE g \in gids : \A o \in gids : g <= o
             records == CompoundRecords(device, gid, 0)
             components == ComponentGids(device, gid)
             map == MapGIDs(st.glyphIndexMap, components, 1)
             new == SelectSeq(components,
                        LAMBDA c : c \notin DOMAIN st.glyphIndexMap)
             \* the components newly inserted, each once, in order
             firsts == [i \in DOMAIN new |->
                          [c |-> new[i],
                           first |-> \A j \in 1..(i - 1) : new[j] # new[i]]]
             pushed == SelectSeq(firsts, LAMBDA e : e.first)
         IN  IF ~st.m_glyphDatas[gid].IsCompound
             THEN MapComponents(st, gids \ {gid}, device)
             ELSE Once(LAMBDA mapped : MapComponents(mapped, gids \ {gid}, device),
                     [m_glyphDatas |->
                         [st.m_glyphDatas EXCEPT ![gid].CompoundComponents =
                             @ \o [i \in DOMAIN components |->
                                      [Offset |-> 10 + records[i].offset + 2,
                                       GlyphIndex |-> map[components[i]]]]],
                      m_orderedGIDs |->
                         st.m_orderedGIDs \o [i \in DOMAIN pushed |-> pushed[i].c],
                      glyphIndexMap |-> map])

\* PdfFontTrueTypeSubset::LoadGlyphs
LoadGlyphs(s, gidList) ==
    LET Mapped(b) ==
            Once(LAMBDA st : Result([b.s EXCEPT !.m_glyphDatas = st.m_glyphDatas,
                                                !.m_orderedGIDs = st.m_orderedGIDs],
                                    ErrOk),
                 MapComponents(
                     [m_glyphDatas |-> b.s.m_glyphDatas,
                      m_orderedGIDs |-> s.m_orderedGIDs \o <<0>> \o gidList,
                      glyphIndexMap |-> MapGIDs((0 :> 0), gidList, 1)],
                     DOMAIN b.s.m_glyphDatas, s.m_device))
        Listed(a) ==
            IF a.err # ErrOk THEN a
            ELSE Once(LAMBDA b : IF b.err # ErrOk THEN b ELSE Mapped(b),
                      LoadGIDs(a.s, gidList, 1))
    IN  Once(Listed, LoadGID(s, 0))

RECURSIVE WriteLocaTable(_, _, _)
\* PdfFontTrueTypeSubset::WriteLocaTable: the entries written for the glyphs
\* of m_orderedGIDs from position i on, and the last, extra entry.
\* glyphAddress is a uint32_t; the sums of glyph lengths met here stay far
\* below 2^32, so it does not wrap.
WriteLocaTable(s, i, glyphAddress) ==
    LET entry == IF s.m_isLongLoca THEN glyphAddress
                 ELSE (glyphAddress \div 2) % 65536
    IN  IF i > Len(s.m_orderedGIDs) THEN <<entry>>
        ELSE <<entry>> \o WriteLocaTable(s, i + 1,
                 glyphAddress + s.m_glyphDatas[s.m_orderedGIDs[i]].GlyphLength)

\* PdfFontTrueTypeSubset::WriteGlyphTable: the glyphs of m_orderedGIDs whose
\* data is written, in order (a glyph of length 0 has none): the bytes of
\* glyph gid of the input, `length` of them, in which for every component
\* record the 16-bit word at Offset is replaced by GlyphIndex
WriteGlyphTable(s) ==
    LET written == SelectSeq(s.m_orderedGIDs,
                       LAMBDA gid : s.m_glyphDatas[gid].GlyphLength # 0)
    IN  [i \in DOMAIN written |->
            [gid |-> written[i],
             length |-> s.m_glyphDatas[written[i]].GlyphLength,
             components |->
                 [k \in DOMAIN s.m_glyphDatas[written[i]].CompoundComponents |->
                     [s.m_glyphDatas[written[i]].CompoundComponents[k]
                         EXCEPT !.GlyphIndex = @ % 65536]]]]

\* what a read finds where the input's table has ended
Outside == -1

\* the 16-bit word at position i (from 1) of a table of the input
ReadWord(table, i) == IF i \in DOMAIN table THEN table[i] ELSE Outside

\* PdfFontTrueTypeSubset::WriteHmtxTable: for every glyph of m_orderedGIDs
\* the 4 bytes at tableOffset + gid * 4 of the input are copied: two words
WriteHmtxTable(s) ==
    [i \in DOMAIN s.m_orderedGIDs |->
        <<ReadWord(s.m_device.hmtx, 2 * s.m_orderedGIDs[i] + 1),
          ReadWord(s.m_device.hmtx, 2 * s.m_orderedGIDs[i] + 2)>>]

RECURSIVE Pow2(_)
\* std::pow(2, k)
Pow2(k) == IF k = 0 THEN 1 ELSE 2 * Pow2(k - 1)

\* std::ceil(std::log2(n)) for n >= 1
CeilLog2(n) == CHOOSE k \in 0..16 : Pow2(k) >= n /\ \A j \in 0..(k - 1) : Pow2(j) < n

\* PdfFontTrueTypeSubset::WriteTables: what the output font holds.  tables
\* are the tags of the directory; numGlyphs is the field written into maxp,
\* numOfLongHorMetrics the one written into hhea (-1: table not written).
WriteTables(s) ==
    LET tags == [i \in DOMAIN s.m_tables |-> s.m_tables[i].Tag]
        has(tag) == \E i \in DOMAIN tags : tags[i] = tag
        size == Cardinality(DOMAIN s.m_glyphDatas) % 65536
        known == ReqTable_all \cup {"cvt ", "fpgm", "prep", "post"}
        entrySelector == CeilLog2(Len(s.m_tables)) % 65536
        searchRange == Pow2(entrySelector) % 65536
    IN  [err |-> IF \E i \in DOMAIN tags : tags[i] \notin known
                 THEN PdfErrorCode_InvalidEnumValue
                 ELSE IF ~has("head") THEN ePdfError_InternalLogic
                 ELSE ErrOk,
         tables |-> tags,
         scaler |-> <<0, 1, 0, 0>>,
         numTables |-> Len(s.m_tables) % 65536,
         searchRange |-> searchRange,
         entrySelector |-> entrySelector,
         rangeShift |-> ((16 * (Len(s.m_tables) % 65536)) - searchRange) % 65536,
         numGlyphs |-> IF has("maxp") THEN size ELSE -1,
         numOfLongHorMetrics |-> IF has("hhea") THEN size ELSE -1,
         hmtx |-> IF has("hmtx") THEN WriteHmtxTable(s) ELSE << >>,
         loca |-> IF has("loca") THEN WriteLocaTable(s, 1, 0) ELSE << >>,
         glyf |-> IF has("glyf") THEN WriteGlyphTable(s) ELSE << >>]

(* The output buffer byte by byte.  A byte is a number in 0..255.  A        *)
(* uint32_t is kept as its two 16-bit halves, so that sums wrap at 2^32.   *)

UInt32(n) == [hi |-> n \div 65536, lo |-> n % 65536]

\* a + b in uint32_t
AddUInt32(a, b) ==
    [hi |-> (a.hi + b.hi + ((a.lo + b.lo) \div 65536)) % 65536,
     lo |-> (a.lo + b.lo) % 65536]

\* a - b in uint32_t
SubUInt32(a, b) ==
    [hi |-> (a.hi - b.hi - (IF a.lo < b.lo THEN 1 ELSE 0)) % 65536,
     lo |-> (a.lo - b.lo) % 65536]

\* a char converted to uint32_t, as `sum += *buf++` does: where char is
\* signed a byte of 128 or more is a negative number and is sign-extended
CharToUInt32(byte, charIsSigned) ==
    IF charIsSigned /\ byte >= 128 THEN [hi |-> 65535, lo |-> 65280 + byte]
    ELSE [hi |-> 0, lo |-> byte]

RECURSIVE GetTableCheksumFrom(_, _, _, _)
\* the loop of GetTableCheksum: nLongs additions, from position buf on
GetTableCheksumFrom(buffer, buf, nLongs, charIsSigned) ==
    IF nLongs = 0 THEN UInt32(0)
    ELSE AddUInt32(CharToUInt32(buffer[buf], charIsSigned),
                   GetTableCheksumFrom(buffer, buf + 1, nLongs - 1, charIsSigned))

\* GetTableCheksum(buffer.data() + offset, size)
GetTableCheksum(buffer, offset, size, charIsSigned) ==
    GetTableCheksumFrom(buffer, offset + 1, (size + 3) \div 4, charIsSigned)

\* utls::WriteUInt16BE(output, n)
UInt16BE(n) == <<(n % 65536) \div 256, n % 256>>

\* the four bytes utls::WriteUInt32BE writes
UInt32BE(n) == UInt16BE(n.hi) \o UInt16BE(n.lo)

\* utls::WriteUInt32BE(buffer.data() + offset, n)
WriteUInt32BE(buffer, offset, n) ==
    [i \in DOMAIN buffer |->
        IF i \in (offset + 1)..(offset + 4) THEN UInt32BE(n)[i - offset]
        ELSE buffer[i]]

\* the bytes of a table's tag
TagBytes(tag) ==
    CASE tag = "head" -> <<104, 101, 97, 100>>
      [] tag = "maxp" -> <<109, 97, 120, 112>>
      [] tag = "cvt " -> <<99, 118, 116, 32>>

RECURSIVE WriteTablesFrom(_, _, _, _, _)
\* the second loop of WriteTables, from table i on.  contents[i] is the tag
\* of m_tables[i] and the bytes its case of the switch writes; headOffset
\* is the optional offset of the head table, Outside while it has no value.
WriteTablesFrom(buffer, headOffset, contents, i, charIsSigned) ==
    IF i > Len(contents) THEN [buffer |-> buffer, headOffset |-> headOffset]
    ELSE LET tableOffset == Len(buffer)
             data == IF contents[i].Tag = "head"
                     THEN WriteUInt32BE(contents[i].bytes, 4, UInt32(0))
                     ELSE contents[i].bytes
             tableLength == Len(data)
             tableLengthPadded == ((tableLength + 3) \div 4) * 4
             padded == buffer \o data
                          \o [k \in 1..(tableLengthPadded - tableLength) |-> 0]
             currDirTableOffset == 12 + (i - 1) * 16
             a == WriteUInt32BE(padded, currDirTableOffset + 4,
                      GetTableCheksum(padded, tableOffset, tableLength, charIsSigned))
             b == WriteUInt32BE(a, currDirTableOffset + 8, UInt32(tableOffset))
             c == WriteUInt32BE(b, currDirTableOffset + 12, UInt32(tableLength))
         IN  WriteTablesFrom(c,
                             IF contents[i].Tag = "head" THEN tableOffset
                             ELSE headOffset,
                             contents, i + 1, charIsSigned)

\* 0xB1B0AFBA
ChecksumMagic == [hi |-> 45488, lo |-> 44986]

\* PdfFontTrueTypeSubset::WriteTables, byte by byte: the buffer written for
\* the tables given and the error raised
WriteTablesBytes(contents, charIsSigned) ==
    LET entrySelector == CeilLog2(Len(contents)) % 65536
        searchRange == Pow2(entrySelector) % 65536
        rangeShift == (16 * (Len(contents) % 65536)) - searchRange
        header == <<0, 1, 0, 0>> \o UInt16BE(Len(contents)) \o UInt16BE(searchRange)
                     \o UInt16BE(entrySelector) \o UInt16BE(rangeShift % 65536)
        RECURSIVE slots(_)
        slots(i) == IF i > Len(contents) THEN << >>
                    ELSE TagBytes(contents[i].Tag)
                            \o [k \in 1..12 |-> 0] \o slots(i + 1)
        written == WriteTablesFrom(header \o slots(1), Outside, contents, 1,
                                   charIsSigned)
        buffer == written.buffer
        fontChecksum == SubUInt32(ChecksumMagic,
                            GetTableCheksum(buffer, 0, Len(buffer), charIsSigned))
    IN  IF written.headOffset = Outside
        THEN [err |-> ePdfError_InternalLogic, buffer |-> buffer]
        ELSE [err |-> ErrOk,
              buffer |-> WriteUInt32BE(buffer, written.headOffset + 4, fontChecksum)]

\* nothing was written to the output buffer
NoOutput == [tables |-> << >>]

\* PdfFontTrueTypeSubset::BuildFont(buffer, gidList): the object afterwards,
\* the error raised, and the output (NoOutput unless WriteTables was reached)
BuildFont(s, gidList) ==
    LET Written(b) ==
            Once(LAMBDA out : [s |-> b.s, err |-> out.err, out |-> out],
                 WriteTables(b.s))
        Loaded(a) ==
            LET glyf == GetTableOffset(a.s, "glyf")
                loca == GetTableOffset(a.s, "loca")
            IN  IF a.err # ErrOk
                THEN [s |-> a.s, err |-> a.err, out |-> NoOutput]
                ELSE IF glyf.err # ErrOk
                THEN [s |-> a.s, err |-> glyf.err, out |-> NoOutput]
                ELSE IF loca.err # ErrOk
                THEN [s |-> a.s, err |-> loca.err, out |-> NoOutput]
                ELSE Once(LAMBDA b : IF b.err # ErrOk
                                     THEN [s |-> b.s, err |-> b.err, out |-> NoOutput]
                                     ELSE Written(b),
                          LoadGlyphs(a.s, gidList))
    IN  Once(Loaded, Init_Subset(s))

-----------------------------------------------------------------------------
(* The values the operations are called with *)

Numbers == -MaxNum .. MaxNum

\* doubles, in units of 1/RealScale: -(MaxNum + 1/2), MaxNum, MaxNum + 1/2
Reals == {-(RealScale * MaxNum + 1), RealScale * MaxNum, RealScale * MaxNum + 1}

Strings == {PdfString(<<97>>, FALSE), PdfString(<<97>>, TRUE), PdfString(<<98>>, FALSE)}

NameA == PdfName(<<65>>)

Names == {PdfName(KeyNull), NameA}

References == {PdfReference(1, 0), PdfReference(2, 0)}

\* the names used as dictionary keys: the empty name and /A
Keys == {KeyNull, <<65>>}

\* the dictionary { /A true }
InnerDictionary == PdfDictionary_AddKey(PdfDictionary, <<65>>, VariantBool(TRUE)).x

\* the objects handed to AddKey
StoredObjects == {VariantBool(TRUE), VariantNumber(1), VariantDictionary(InnerDictionary)}

\* the objects handed to AddKey on a dictionary stored in a dictionary
InnerObjects == {VariantBool(FALSE), VariantNumber(1)}

\* the dictionaries built from an empty one by AddKey
Dictionaries ==
    {PdfDictionary}
    \cup {PdfDictionary_AddKey(PdfDictionary, k, o).x : k \in Keys, o \in StoredObjects}
    \cup {PdfDictionary_AddKey(PdfDictionary_AddKey(PdfDictionary, KeyNull, o1).x,
                               <<65>>, o2).x : o1 \in StoredObjects, o2 \in StoredObjects}

Arrays == {PdfArray(<< >>), PdfArray(<<VariantNumber(1)>>)}

\* the variants the public constructors build
Constructed ==
    {VariantNull}
    \cup {VariantBool(b) : b \in BOOLEAN}
    \cup {VariantNumber(l) : l \in Numbers}
    \cup {VariantReal(d) : d \in Reals}
    \cup {VariantString(s) : s \in Strings}
    \cup {VariantName(n) : n \in Names}
    \cup {VariantReference(r) : r \in References}
    \cup {VariantArray(a) : a \in Arrays}
    \cup {VariantDictionary(d) : d \in Dictionaries}
    \cup {VariantRawData(PdfData(<<97>>))}

\* the other operand of a comparison or an assignment: a constructed
\* variant, or one that was cleared (kind Unknown)
Operands == Constructed \cup {Clear(VariantNull)}

OneOfEachKind ==
    {VariantNull, VariantBool(TRUE), VariantNumber(MaxNum),
     VariantReal(RealScale * MaxNum), VariantString(PdfString(<<97>>, FALSE)),
     VariantString(PdfString(<<97>>, TRUE)), VariantName(NameA),
     VariantReference(PdfReference(1, 0)), VariantArray(PdfArray(<< >>)),
     VariantDictionary(PdfDictionary), VariantRawData(PdfData(<<97>>)),
     Clear(VariantNull)}

-----------------------------------------------------------------------------
(* The state machine: one variant v and the operations called on it.       *)
(* op is the last call (its name, the key and the argument it was given),  *)
(* err the error it raised (or ErrOk), ret what it returned.               *)

NoArg == "-"

Call(name, key, arg) == [name |-> name, key |-> key, arg |-> arg]

\* the call `name` ends with variant x, error e and return value r
Step(name, key, arg, x, e, r) ==
    /\ v' = x
    /\ op' = Call(name, key, arg)
    /\ err' = e
    /\ ret' = r
    /\ UNCHANGED pc

\* a call that returns nothing ends with the result res of a setter
Done(name, key, arg, res) == Step(name, key, arg, res.x, res.err, NoArg)

Init ==
    /\ v \in Constructed
    /\ op = Call("construct", KeyNull, NoArg)
    /\ err = ErrOk
    /\ ret = NoArg
    /\ pc = << >>

OpSetBool == \E b \in BOOLEAN : Done("SetBool", KeyNull, b, SetBool(v, b))

OpSetNumber == \E l \in Numbers : Done("SetNumber", KeyNull, l, SetNumber(v, l))

OpSetReal == \E d \in Reals : Done("SetReal", KeyNull, d, SetReal(v, d))

OpSetName == \E n \in Names : Done("SetName", KeyNull, n, SetName(v, n))

OpSetString == \E str \in Strings : Done("SetString", KeyNull, str, SetString(v, str))

OpSetDirty == \E b \in BOOLEAN : Done("SetDirty", KeyNull, b, Ok(SetDirty(v, b)))

OpSetImmutable ==
    \E b \in BOOLEAN : Done("SetImmutable", KeyNull, b, Ok(SetImmutable(v, b)))

OpWrite == Done("Write", KeyNull, NoArg, Write(v))

OpGetDataType ==
    Step("GetDataType", KeyNull, NoArg, DelayedLoad(v), ErrOk, GetDataType(v))

\* the Get* readers
Getter(name, x) ==
    CASE name = "GetBool" -> GetBool(x)
      [] name = "GetNumber" -> GetNumber(x)
      [] name = "GetReal" -> GetReal(x)
      [] name = "GetString" -> GetString(x)
      [] name = "GetName" -> GetName(x)
      [] name = "GetReference" -> GetReference(x)
      [] name = "GetArray" -> GetArray(x)
      [] name = "GetDictionary" -> GetDictionary(x)

Getters == {"GetBool", "GetNumber", "GetReal", "GetString", "GetName",
            "GetReference", "GetArray", "GetDictionary"}

OpGet ==
    \E g \in Getters :
        Step(g, KeyNull, NoArg, DelayedLoad(v), Getter(g, v).err,
             IF Getter(g, v).err = ErrOk THEN Getter(g, v).val ELSE NoArg)

\* v == rhs
EqualsWith(rhs) ==
    LET r == VariantEq(v, rhs, FALSE)
    IN  Step("Equals", KeyNull, rhs, DelayedLoad(v),
             IF r \in {EqTrue, EqFalse, Diverges} THEN ErrOk ELSE r, r)

OpEquals == \E rhs \in Operands : EqualsWith(rhs)

\* v == rhs for one rhs of each kind
OpEqualsKind == \E rhs \in OneOfEachKind : EqualsWith(rhs)

\* v == v
OpEqualsSelf ==
    LET r == VariantEq(v, DelayedLoad(v), TRUE)
    IN  Step("EqualsSelf", KeyNull, NoArg, DelayedLoad(v),
             IF r \in {EqTrue, EqFalse, Diverges} THEN ErrOk ELSE r, r)

\* PdfVariant c(v); c == v
OpCloneEquals ==
    LET r == VariantEq(CopyCtor(v), DelayedLoad(v), FALSE)
    IN  Step("CloneEquals", KeyNull, NoArg, DelayedLoad(v),
             IF r \in {EqTrue, EqFalse, Diverges} THEN ErrOk ELSE r, r)

\* v = rhs
OpAssign == \E rhs \in Operands : Done("Assign", KeyNull, rhs, Ok(Assign(v, rhs)))

\* other = v: v is the source of an assignment
OpAssignFrom == Done("AssignFrom", KeyNull, NoArg, Ok(DelayedLoad(v)))

OpClear == Done("Clear", KeyNull, NoArg, Ok(Clear(v)))

\* v.GetDictionary().AddKey(k, o)
OpAddKey ==
    \E k \in Keys, o \in StoredObjects :
        LET g == GetDictionary(v)
            y == DelayedLoad(v)
            r == PdfDictionary_AddKey(g.val, k, o)
        IN  IF g.err # ErrOk
            THEN Done("AddKey", k, o, Raise(y, g.err))
            ELSE Done("AddKey", k, o, Raise([y EXCEPT !.pData = r.x], r.err))

\* v.GetDictionary().RemoveKey(k)
OpRemoveKey ==
    \E k \in Keys :
        LET g == GetDictionary(v)
            y == DelayedLoad(v)
            r == PdfDictionary_RemoveKey(g.val, k)
        IN  IF g.err # ErrOk
            THEN Step("RemoveKey", k, NoArg, y, g.err, NoArg)
            ELSE Step("RemoveKey", k, NoArg, [y EXCEPT !.pData = r.x], r.err,
                      IF r.err = ErrOk THEN k \in DOMAIN g.val.m_mapKeys ELSE NoArg)

\* v.GetDictionary().Clear()
OpDictClear ==
    LET g == GetDictionary(v)
        y == DelayedLoad(v)
        r == PdfDictionary_Clear(g.val)
    IN  IF g.err # ErrOk
        THEN Done("DictClear", KeyNull, NoArg, Raise(y, g.err))
        ELSE Done("DictClear", KeyNull, NoArg, Raise([y EXCEPT !.pData = r.x], r.err))

\* v is a dictionary that holds an object under k
HasChild(k) ==
    /\ v.m_bDelayedLoadDone
    /\ v.m_eDataType = ePdfDataType_Dictionary
    /\ k \in DOMAIN v.pData.m_mapKeys

Child(k) == v.pData.m_mapKeys[k]

\* a setter called on the object stored under k
OpChildSetBool ==
    \E k \in Keys, b \in BOOLEAN :
        /\ HasChild(k)
        /\ LET r == SetBool(Child(k), b)
           IN  Done("ChildSetBool", k, b,
                    Raise([v EXCEPT !.pData.m_mapKeys[k] = r.x], r.err))

OpChildSetNumber ==
    \E k \in Keys, l \in Numbers :
        /\ HasChild(k)
        /\ LET r == SetNumber(Child(k), l)
           IN  Done("ChildSetNumber", k, l,
                    Raise([v EXCEPT !.pData.m_mapKeys[k] = r.x], r.err))

\* AddKey on the dictionary stored under k
OpChildAddKey ==
    \E k \in Keys, o \in InnerObjects :
        /\ HasChild(k)
        /\ Child(k).m_eDataType = ePdfDataType_Dictionary
        /\ LET r == PdfDictionary_AddKey(Child(k).pData, <<65>>, o)
           IN  Done("ChildAddKey", k, o,
                    Raise([v EXCEPT !.pData.m_mapKeys[k].pData = r.x], r.err))

\* SetBool on the object stored under /A in the dictionary stored under k
OpGrandChildSetBool ==
    \E k \in Keys, b \in BOOLEAN :
        /\ HasChild(k)
        /\ Child(k).m_eDataType = ePdfDataType_Dictionary
        /\ <<65>> \in DOMAIN Child(k).pData.m_mapKeys
        /\ LET r == SetBool(Child(k).pData.m_mapKeys[<<65>>], b)
           IN  Done("GrandChildSetBool", k, b,
                    Raise([v EXCEPT !.pData.m_mapKeys[k].pData.m_mapKeys[<<65>>] = r.x],
                          r.err))

\* The operations on one variant
Next ==
    \/ OpSetBool
    \/ OpSetNumber
    \/ OpSetReal
    \/ OpSetName
    \/ OpSetString
    \/ OpSetDirty
    \/ OpSetImmutable
    \/ OpWrite
    \/ OpGetDataType
    \/ OpGet
    \/ OpEqualsKind
    \/ OpAssign
    \/ OpAssignFrom
    \/ OpClear
    \/ OpAddKey
    \/ OpRemoveKey
    \/ OpDictClear

Spec == Init /\ [][Next]_vars

\* A dictionary variant, the operations on its dictionary and on the
\* objects stored in it
InitDict ==
    /\ v \in {VariantDictionary(d) : d \in Dictionaries}
    /\ op = Call("construct", KeyNull, NoArg)
    /\ err = ErrOk
    /\ ret = NoArg
    /\ pc = << >>

NextDict ==
    \/ OpSetDirty
    \/ OpSetImmutable
    \/ OpAddKey
    \/ OpRemoveKey
    \/ OpDictClear
    \/ OpChildSetBool
    \/ OpChildSetNumber
    \/ OpChildAddKey
    \/ OpGrandChildSetBool

SpecDict == InitDict /\ [][NextDict]_vars

\* Comparisons of every pair of operands
InitEq ==
    /\ v \in Operands
    /\ op = Call("construct", KeyNull, NoArg)
    /\ err = ErrOk
    /\ ret = NoArg
    /\ pc = << >>

NextEq ==
    \/ OpEquals
    \/ OpEqualsSelf
    \/ OpCloneEquals

SpecEq == InitEq /\ [][NextEq]_vars

\* A variant created by a subclass that enables delayed loading: its
\* content c is what the load hook will materialise.
Delayed(c) ==
    [NewVariant EXCEPT
        !.m_bDelayedLoadDone = FALSE,
        !.hook = [m_eDataType |-> c.m_eDataType, bBoolValue |-> c.bBoolValue,
                  nNumber |-> c.nNumber, dNumber |-> c.dNumber, pData |-> c.pData]]

\* A variant whose load hook has not run, and the calls that run it
InitLoad ==
    /\ v \in {Delayed(c) : c \in OneOfEachKind \ {Clear(VariantNull)}}
    /\ op = Call("construct", KeyNull, NoArg)
    /\ err = ErrOk
    /\ ret = NoArg
    /\ pc = << >>

\* a call is made while the hook has run fewer than MaxHookCalls times
Bounded(A) == v.hookCalls < MaxHookCalls /\ A

NextLoad ==
    \/ Bounded(OpGetDataType)
    \/ Bounded(OpGet)
    \/ Bounded(OpSetBool)
    \/ Bounded(OpSetNumber)
    \/ Bounded(OpSetReal)
    \/ Bounded(OpSetName)
    \/ Bounded(OpSetString)
    \/ Bounded(OpWrite)
    \/ Bounded(OpEqualsKind)
    \/ Bounded(OpAssignFrom)

SpecLoad == InitLoad /\ [][NextLoad]_vars

\* PdfVariant::IsDirty called on the variant
OpIsDirty == Step("IsDirty", KeyNull, NoArg, v, ErrOk, IsDirty(v))

\* A variant whose load hook has not run, and the operations on its flags;
\* GetDataType is there to complete the load
NextFlags ==
    \/ OpIsDirty
    \/ OpSetDirty
    \/ OpSetImmutable
    \/ OpGetDataType

SpecFlags == InitLoad /\ [][NextFlags]_vars

-----------------------------------------------------------------------------
(* Indirect objects 1 and 2 of one document, each a dictionary that may     *)
(* hold /A and may hold a /Parent: a reference to object 1, 2 or 3 (which   *)
(* does not exist), or a number.  v is the table of the objects.            *)

ObjectNumbers == {1, 2}

ParentValues ==
    {VariantReference(PdfReference(n, 0)) : n \in 1..3} \cup {VariantNumber(MaxNum)}

\* the dictionaries an indirect object can be
GraphDictionaries ==
    LET withA == {PdfDictionary, PdfDictionary_AddKey(PdfDictionary, <<65>>,
                                                      VariantBool(TRUE)).x}
    IN  withA \cup {PdfDictionary_AddKey(d, KeyParent, p).x :
                        d \in withA, p \in ParentValues}

InitGraph ==
    /\ v \in [ObjectNumbers -> {VariantDictionary(d) : d \in GraphDictionaries}]
    /\ op = Call("construct", KeyNull, NoArg)
    /\ err = ErrOk
    /\ ret = NoArg
    /\ pc = << >>

\* objects[n].GetDictionary().findKeyParent(key)
OpFindKeyParent ==
    \E n \in ObjectNumbers : \E key \in {<<65>>, <<66>>} :
        Step("findKeyParent", key, n, v, ErrOk,
             PdfDictionary_findKeyParent(v, v[n].pData, key, {}))

\* objects[n].GetDictionary().findKey(key)
OpFindKey ==
    \E n \in ObjectNumbers : \E key \in {<<65>>, KeyParent} :
        Step("findKey", key, n, v, ErrOk, PdfDictionary_findKey(v, v[n].pData, key))

NextGraph == OpFindKeyParent \/ OpFindKey

SpecGraph == InitGraph /\ [][NextGraph]_vars

-----------------------------------------------------------------------------
(* Writing a dictionary.  The dictionaries hold any of the keys /A, /Type,  *)
(* /a and the empty name, with a Bool or a Number under each.               *)

WriteKeys == {<<65>>, KeyType, <<97>>, KeyNull}

WriteModes == {{ePdfWriteMode_Compact}, {ePdfWriteMode_Clean}}

\* key_stop arguments: none, /Type, a key before and one after /Type, and
\* /Z, which no dictionary holds
KeyStops == {KeyNull, KeyType, <<65>>, <<97>>, <<90>>}

RECURSIVE AddKeys(_, _)
\* AddKey called for every key in `keys`, with the object entries[key]
AddKeys(keys, entries) ==
    IF keys = {} THEN PdfDictionary
    ELSE LET k == CHOOSE k \in keys : TRUE
         IN  PdfDictionary_AddKey(AddKeys(keys \ {k}, entries), k, entries[k]).x

InitWrite ==
    /\ v \in {VariantDictionary(AddKeys(keys, entries)) :
                 keys \in SUBSET WriteKeys,
                 entries \in [WriteKeys -> {VariantBool(TRUE), VariantNumber(MaxNum)}]}
    /\ op = Call("construct", KeyNull, NoArg)
    /\ err = ErrOk
    /\ ret = NoArg
    /\ pc = << >>

\* PdfVariant::Write(pDevice, eWriteMode, pEncrypt, keyStop); ret is what
\* the device received
OpWriteTo ==
    \E eWriteMode \in WriteModes : \E keyStop \in KeyStops :
        Step("WriteTo", keyStop, eWriteMode, Write(v).x, Write(v).err,
             IF Write(v).err = ErrOk THEN WriteOutput(v, eWriteMode, keyStop)
             ELSE NoArg)

NextWrite == OpWriteTo \/ OpSetDirty

SpecWrite == InitWrite /\ [][NextWrite]_vars

\* PdfVariant::SetReference called on the variant
OpSetReference ==
    \E ref \in References : \E res \in SetReference(v, ref) :
        Done("SetReference", KeyNull, ref, res)

\* A constructed variant; SetReference, with SetImmutable and the readers
NextRef ==
    \/ OpSetReference
    \/ OpSetImmutable
    \/ OpGet

SpecRef == Init /\ [][NextRef]_vars

-----------------------------------------------------------------------------
(* Two threads call GetDataType() on one variant whose load is pending.     *)
(* DelayedLoad takes no lock, so its statements interleave: the test of     *)
(* m_bDelayedLoadDone, the call of DelayedLoadImpl (entered, then returned  *)
(* with the content written), the store to m_bDelayedLoadDone, and the read *)
(* of m_eDataType.  ret[t] is what thread t read.                           *)

Threads == {1, 2}

InitThreads ==
    /\ v \in {Delayed(c) : c \in OneOfEachKind \ {Clear(VariantNull)}}
    /\ op = Call("GetDataType", KeyNull, NoArg)
    /\ err = ErrOk
    /\ ret = [t \in Threads |-> NoArg]
    /\ pc = [t \in Threads |-> "test"]

\* thread t moves to position p; the variant becomes x
Goto(t, p, x) ==
    /\ pc' = [pc EXCEPT ![t] = p]
    /\ v' = x
    /\ UNCHANGED <<op, err>>

\* DelayedLoad: if (m_bDelayedLoadDone) return;
ThreadTest(t) ==
    /\ pc[t] = "test"
    /\ Goto(t, IF v.m_bDelayedLoadDone THEN "read" ELSE "call", v)
    /\ UNCHANGED ret

\* DelayedLoad: DelayedLoadImpl() is entered
ThreadEnterHook(t) ==
    /\ pc[t] = "call"
    /\ Goto(t, "hook", [v EXCEPT !.hookCalls = @ + 1])
    /\ UNCHANGED ret

\* DelayedLoadImpl() has written the content and returns
ThreadLeaveHook(t) ==
    /\ pc[t] = "hook"
    /\ Goto(t, "store", [DelayedLoadImpl(v) EXCEPT !.hookCalls = v.hookCalls])
    /\ UNCHANGED ret

\* DelayedLoad: m_bDelayedLoadDone = true; AfterDelayedLoad();
ThreadStoreDone(t) ==
    /\ pc[t] = "store"
    /\ Goto(t, "read", AfterDelayedLoad([v EXCEPT !.m_bDelayedLoadDone = TRUE]))
    /\ UNCHANGED ret

\* GetDataType: return m_eDataType.  The read is recorded together with
\* whether a thread was inside the hook at that moment.
ThreadRead(t) ==
    /\ pc[t] = "read"
    /\ Goto(t, "done", v)
    /\ ret' = [ret EXCEPT ![t] = [kind |-> v.m_eDataType,
                                  inHook |-> \E u \in Threads : pc[u] = "hook"]]

NextThreads ==
    \E t \in Threads :
        \/ ThreadTest(t)
        \/ ThreadEnterHook(t)
        \/ ThreadLeaveHook(t)
        \/ ThreadStoreDone(t)
        \/ ThreadRead(t)

SpecThreads == InitThreads /\ [][NextThreads]_vars

-----------------------------------------------------------------------------
(* One thread; the load hook may call GetDataType() on the variant it is    *)
(* loading.  pc is the call stack, innermost call first: each entry is the  *)
(* position of one call of GetDataType() inside DelayedLoad; a call at      *)
(* "hook" is inside DelayedLoadImpl, which is waiting for the call above    *)
(* it, if there is one.                                                     *)

InitReentrant ==
    /\ v \in {Delayed(c) : c \in OneOfEachKind \ {Clear(VariantNull)}}
    /\ op = Call("GetDataType", KeyNull, NoArg)
    /\ err = ErrOk
    /\ ret = NoArg
    /\ pc = <<"test">>

\* the innermost call moves to position p; the variant becomes x
Advance(p, x) ==
    /\ pc' = <<p>> \o Tail(pc)
    /\ v' = x
    /\ UNCHANGED <<op, err, ret>>

\* DelayedLoad: if (m_bDelayedLoadDone) return;
FrameTest ==
    /\ pc # << >> /\ Head(pc) = "test"
    /\ Advance(IF v.m_bDelayedLoadDone THEN "read" ELSE "call", v)

\* DelayedLoad: DelayedLoadImpl() is entered
FrameEnterHook ==
    /\ pc # << >> /\ Head(pc) = "call"
    /\ v.hookCalls < MaxHookCalls
    /\ Advance("hook", [v EXCEPT !.hookCalls = @ + 1])

\* the hook calls GetDataType() on the variant it is loading
HookCallsAccessor ==
    /\ pc # << >> /\ Head(pc) = "hook"
    /\ pc' = <<"test">> \o pc
    /\ op' = Call("GetDataType", KeyNull, "from the hook")
    /\ UNCHANGED <<v, err, ret>>

\* DelayedLoadImpl() writes the content and returns
FrameLeaveHook ==
    /\ pc # << >> /\ Head(pc) = "hook"
    /\ Advance("store", [DelayedLoadImpl(v) EXCEPT !.hookCalls = v.hookCalls])

\* DelayedLoad: m_bDelayedLoadDone = true; AfterDelayedLoad();
FrameStoreDone ==
    /\ pc # << >> /\ Head(pc) = "store"
    /\ Advance("read", AfterDelayedLoad([v EXCEPT !.m_bDelayedLoadDone = TRUE]))

\* GetDataType: return m_eDataType; the call returns to its caller
FrameReturn ==
    /\ pc # << >> /\ Head(pc) = "read"
    /\ pc' = Tail(pc)
    /\ op' = Call("GetDataType", KeyNull,
                  IF Len(pc) > 1 THEN "returned to the hook" ELSE NoArg)
    /\ err' = ErrOk
    /\ ret' = v.m_eDataType
    /\ UNCHANGED v

NextReentrant ==
    \/ FrameTest
    \/ FrameEnterHook
    \/ HookCallsAccessor
    \/ FrameLeaveHook
    \/ FrameStoreDone
    \/ FrameReturn

SpecReentrant == InitReentrant /\ [][NextReentrant]_vars

-----------------------------------------------------------------------------
(* Subsetting a TrueType font.  v is the input font; BuildFont is called    *)
(* on a subset object constructed for it, as the static BuildFont does.     *)
(* ret holds the object after the call (s) and the output font (out).       *)

Gids == 0..(NumGlyphs - 1)

\* the tags of a font file's directory, in the order of the file
FileTags == <<"cmap", "cvt ", "glyf", "head", "hhea", "hmtx", "loca", "maxp",
              "post">>

\* the directory holding the tables `tags`, `post` with the length given
Directory(tags, postLength) ==
    LET all == [i \in DOMAIN FileTags |->
                  [Tag |-> FileTags[i], Offset |-> 64 * i,
                   Length |-> IF FileTags[i] = "post" THEN postLength ELSE 36]]
    IN  SelectSeq(all, LAMBDA tbl : tbl.Tag \in tags)

\* all six required tables, or all but one, or none of them; alone, or with
\* cmap, cvt and a post table of 16 or of 40 bytes
Directories ==
    {Directory(req \cup opt, postLength) :
        req \in {ReqTable_all, {}} \cup {ReqTable_all \ {tag} : tag \in ReqTable_all},
        opt \in {{}, {"cmap", "cvt ", "post"}},
        postLength \in {16, 40}}

\* the component glyph ids of every glyph: all glyphs simple; a chain
\* 1 -> 2 -> 3; a cycle 1 -> 2 -> 1; glyph 0 compound, naming glyph 3 twice;
\* glyph 3 made of 1 and 2; glyph 2 naming a glyph the font does not have;
\* a chain 3 -> 2 -> 1; glyph 4 made of 2 and 3 with 3 made of 1; glyph 1
\* naming itself
GlyphComponents ==
    {[g \in Gids |-> << >>],
     [g \in Gids |-> CASE g = 1 -> <<2>> [] g = 2 -> <<3>> [] OTHER -> << >>],
     [g \in Gids |-> CASE g = 1 -> <<2>> [] g = 2 -> <<1>> [] OTHER -> << >>],
     [g \in Gids |-> IF g = 0 THEN <<3, 3>> ELSE << >>],
     [g \in Gids |-> IF g = 3 THEN <<1, 2>> ELSE << >>],
     [g \in Gids |-> IF g = 2 THEN <<NumGlyphs>> ELSE << >>],
     [g \in Gids |-> CASE g = 3 -> <<2>> [] g = 2 -> <<1>> [] OTHER -> << >>],
     [g \in Gids |-> CASE g = 4 -> <<2, 3>> [] g = 3 -> <<1>> [] OTHER -> << >>],
     [g \in Gids |-> IF g = 1 THEN <<1>> ELSE << >>]}

\* the flags of the component records of a glyph: all but the last have
\* MORE_COMPONENTS; the odd ones have word arguments and a scale, the even
\* ones a two-by-two transformation
ComponentFlags(components) ==
    [k \in DOMAIN components |->
        (IF k < Len(components) THEN 32 ELSE 0) + (IF k % 2 = 1 THEN 1 + 8 ELSE 128)]

\* the byte lengths of the glyphs: glyph 1 is empty when it is simple; a
\* compound glyph is its header and its component records
GlyphLengths(components) ==
    [g \in Gids |->
        IF components[g] # << >>
        THEN 10 + RecordOffset(ComponentFlags(components[g]), Len(components[g]) + 1)
        ELSE IF g = 1 THEN 0 ELSE 2 * (g + 5)]

\* the glyphs of the fonts: every shape above, and simple glyphs of which
\* glyph 2 is 70000 bytes long (a short loca table can describe a glyf
\* table of up to 131070 bytes)
GlyphShapes ==
    {[components |-> components, glyphLength |-> GlyphLengths(components)] :
        components \in GlyphComponents}
    \cup {[components |-> [g \in Gids |-> << >>],
           glyphLength |-> [g \in Gids |-> IF g = 2 THEN 70000 ELSE 2 * (g + 5)]]}

\* the advance width and the left side bearing the fonts give glyph gid; a
\* glyph at or beyond numberOfHMetrics has the advance width of the last
\* longHorMetric record
AdvanceWidth(numberOfHMetrics, gid) ==
    500 + (IF gid < numberOfHMetrics THEN gid ELSE numberOfHMetrics - 1)

LeftSideBearing(gid) == 10 + gid

\* the hmtx table: numberOfHMetrics records of advance width and left side
\* bearing, then the left side bearings of the other glyphs
HmtxTable(numberOfHMetrics) ==
    [i \in 1..(2 * numberOfHMetrics) |->
        IF i % 2 = 1 THEN AdvanceWidth(numberOfHMetrics, (i - 1) \div 2)
        ELSE LeftSideBearing((i - 1) \div 2)]
    \o [i \in 1..(NumGlyphs - numberOfHMetrics) |->
           LeftSideBearing(numberOfHMetrics + i - 1)]

Fonts ==
    {[directory |-> directory, numGlyphs |-> NumGlyphs,
      numberOfHMetrics |-> numberOfHMetrics,
      hmtx |-> HmtxTable(numberOfHMetrics),
      indexToLocFormat |-> indexToLocFormat,
      components |-> shape.components,
      flags |-> [g \in Gids |-> ComponentFlags(shape.components[g])],
      glyphLength |-> shape.glyphLength] :
        directory \in Directories, indexToLocFormat \in {0, 1},
        numberOfHMetrics \in {NumGlyphs, 2},
        shape \in GlyphShapes}

\* the tags of the input font's table directory
TagsOf(font) == {font.directory[i].Tag : i \in DOMAIN font.directory}

\* glyph ids of the font and one past them
GIDLists ==
    UNION {[1..n -> 0..NumGlyphs] : n \in 0..MaxGidListLen}

InitFont ==
    /\ v \in Fonts
    /\ op = Call("construct", KeyNull, NoArg)
    /\ err = ErrOk
    /\ ret = NoArg
    /\ pc = << >>

\* PdfFontTrueTypeSubset subset(input); subset.BuildFont(output, gidList);
\* the font is subsetted once: a second call builds a new subset object from
\* the same input and gives the same result
OpBuildFont ==
    \E gidList \in GIDLists :
        /\ op.name = "construct"
        /\ \E r \in {BuildFont(PdfFontTrueTypeSubset(v), gidList)} :
               Step("BuildFont", KeyNull, gidList, v, r.err,
                    [s |-> r.s, out |-> r.out])

NextFont == OpBuildFont

SpecFont == InitFont /\ [][NextFont]_vars

(* WriteTables byte by byte: the tables of m_tables with the bytes written *)
(* for each, and the two builds the type char allows.                      *)

\* the bytes a table is made of: small, and 128 or more
TableBytes == UNION {[1..n -> {1, 200}] : n \in 0..MaxTableLen}

\* a head table: twelve bytes, bytes 4..7 the input's checkSumAdjustment
HeadTables == {<<0, 1, 0, 0, 9, 9, 9, 9, 95, 15, 60, 245>>,
               <<0, 1, 0, 0, 0, 0, 0, 0, 1, 2, 3, 4>>}

TableContents ==
    LET head == {[Tag |-> "head", bytes |-> b] : b \in HeadTables}
        other == {[Tag |-> tag, bytes |-> b] : tag \in {"maxp", "cvt "},
                                                 b \in TableBytes}
    IN  {<<h>> : h \in head} \cup {<<o>> : o \in other}
        \cup {<<h, o>> : h \in head, o \in other}
        \cup {<<o, h>> : h \in head, o \in other}
        \cup {<<o, h, p>> : h \in head,
                            o \in {x \in other : x.Tag = "maxp" /\ Len(x.bytes) = 2},
                            p \in {x \in other : x.Tag = "cvt " /\ Len(x.bytes) \in {0, 3}}}

InitBytes ==
    /\ v \in [contents : TableContents, charIsSigned : BOOLEAN]
    /\ op = Call("construct", KeyNull, NoArg)
    /\ err = ErrOk
    /\ ret = NoArg
    /\ pc = << >>

\* the output WriteTables leaves for the tables of the subset; one call per
\* subset object
OpWriteTables ==
    /\ op.name = "construct"
    /\ LET r == WriteTablesBytes(v.contents, v.charIsSigned)
       IN  Step("WriteTables", KeyNull, NoArg, v, r.err, r.buffer)

NextBytes == OpWriteTables

SpecBytes == InitBytes /\ [][NextBytes]_vars

-----------------------------------------------------------------------------
(* The closure walk of LoadGlyphs, one call of LoadGID at a time.  v holds  *)
(* the subset object after Init (s) and, as a history, the glyph ids in the *)
(* order they were entered into m_glyphDatas (loads).  pc is the call       *)
(* stack: the lowest frame is the loop of LoadGlyphs over glyph 0 and the   *)
(* gidList, every other frame the loop of LoadCompound over the components  *)
(* of one glyph; a frame holds the glyph ids to load and the position of    *)
(* the next one.  An exception empties the stack.                           *)

\* a plausible slip: LoadGID does not look the glyph up before loading it
LoadGIDEntry_NoFind(s, gid) ==
    IF gid >= s.m_glyphCount THEN "raise" ELSE "load"

\* the tests at the head of LoadGID
LoadGIDEntry(s, gid) ==
    IF gid >= s.m_glyphCount THEN "raise"
    ELSE IF gid \in DOMAIN s.m_glyphDatas THEN "return"
    ELSE "load"

\* the fonts walked: every shape of compound glyphs, all six tables
WalkFonts == {font \in Fonts : /\ TagsOf(font) = ReqTable_all
                               /\ font.indexToLocFormat = 0
                               /\ font.numberOfHMetrics = NumGlyphs}

InitWalk ==
    /\ v \in {[s |-> Init_Subset(PdfFontTrueTypeSubset(font)).s, loads |-> << >>] :
                 font \in WalkFonts}
    /\ pc \in {<<[gids |-> <<0>> \o gidList, next |-> 1]>> : gidList \in GIDLists}
    /\ op = Call("construct", KeyNull, NoArg)
    /\ err = ErrOk
    /\ ret = NoArg

\* the frame on top of the stack with its position moved on by one
Advanced == [pc EXCEPT ![Len(pc)].next = @ + 1]

\* the loop on top of the stack calls LoadGID, which raises
WalkRaise ==
    /\ pc # << >>
    /\ pc[Len(pc)].next <= Len(pc[Len(pc)].gids)
    /\ LET gid == pc[Len(pc)].gids[pc[Len(pc)].next]
       IN  /\ LoadGIDEntry(v.s, gid) = "raise"
           /\ v' = v
           /\ op' = Call("LoadGID", KeyNull, gid)
           /\ err' = ePdfError_InternalLogic
           /\ ret' = NoArg
           /\ pc' = << >>

\* the loop on top of the stack calls LoadGID for a glyph already loaded
WalkFound ==
    /\ pc # << >>
    /\ pc[Len(pc)].next <= Len(pc[Len(pc)].gids)
    /\ LET gid == pc[Len(pc)].gids[pc[Len(pc)].next]
       IN  /\ LoadGIDEntry(v.s, gid) = "return"
           /\ v' = v
           /\ op' = Call("LoadGID", KeyNull, gid)
           /\ err' = ErrOk
           /\ ret' = NoArg
           /\ pc' = Advanced

\* the loop on top of the stack calls LoadGID for a new glyph: the glyph is
\* entered into m_glyphDatas, and LoadCompound begins if it is compound
WalkLoad ==
    /\ pc # << >>
    /\ pc[Len(pc)].next <= Len(pc[Len(pc)].gids)
    /\ LET gid == pc[Len(pc)].gids[pc[Len(pc)].next]
           components == ComponentGids(v.s.m_device, gid)
           glyphData == [GlyphLength |-> v.s.m_device.glyphLength[gid],
                         IsCompound |-> components # << >>,
                         CompoundComponents |-> << >>]
       IN  /\ LoadGIDEntry(v.s, gid) = "load"
           /\ v' = [s |-> [v.s EXCEPT !.m_glyphDatas = (gid :> glyphData) @@ @],
                    loads |-> Append(v.loads, gid)]
           /\ op' = Call("LoadGID", KeyNull, gid)
           /\ err' = ErrOk
           /\ ret' = NoArg
           /\ pc' = IF glyphData.IsCompound
                    THEN Append(Advanced, [gids |-> components, next |-> 1])
                    ELSE Advanced

\* the loop on top of the stack is over: LoadCompound and the LoadGID that
\* called it return, or the loading loop of LoadGlyphs ends
WalkReturn ==
    /\ pc # << >>
    /\ pc[Len(pc)].next > Len(pc[Len(pc)].gids)
    /\ pc' = SubSeq(pc, 1, Len(pc) - 1)
    /\ op' = Call("return", KeyNull, NoArg)
    /\ UNCHANGED <<v, err, ret>>

NextWalk == WalkRaise \/ WalkFound \/ WalkLoad \/ WalkReturn

SpecWalk == InitWalk /\ [][NextWalk]_vars

\* the walk is one sequential computation: a step that can be taken is taken
SpecWalkFair == SpecWalk /\ WF_vars(NextWalk)

-----------------------------------------------------------------------------
(* PdfCanvasInputDevice (PdfCanvasInputDevice.cpp): the content streams of  *)
(* a canvas read as one input.  A stream is a sequence of bytes.  The       *)
(* device over one stream, PdfInputDevice, holds the bytes, the read        *)
(* position and the stream's end-of-file flag, which a read that finds no   *)
(* byte sets.                                                               *)

\* <cstdio> EOF
EOF == -1

\* PdfInputDevice::PdfInputDevice(PdfStream&)
PdfInputDevice(stream) == [bytes |-> stream, pos |-> 0, eofbit |-> FALSE]

\* PdfInputDevice::TryGetChar
PdfInputDevice_TryGetChar(dev) ==
    IF dev.pos < Len(dev.bytes)
    THEN [dev |-> [dev EXCEPT !.pos = @ + 1], ok |-> TRUE, ch |-> dev.bytes[dev.pos + 1]]
    ELSE [dev |-> [dev EXCEPT !.eofbit = TRUE], ok |-> FALSE, ch |-> 0]

\* PdfInputDevice::Look
PdfInputDevice_Look(dev) ==
    IF dev.pos < Len(dev.bytes)
    THEN [dev |-> dev, ret |-> dev.bytes[dev.pos + 1]]
    ELSE [dev |-> [dev EXCEPT !.eofbit = TRUE], ret |-> EOF]

\* PdfInputDevice::Read: the bytes read
PdfInputDevice_Read(dev, size) ==
    LET left == Len(dev.bytes) - dev.pos
        n == IF size < left THEN size ELSE left
    IN  [dev |-> [dev EXCEPT !.pos = @ + n, !.eofbit = @ \/ n < size],
         data |-> SubSeq(dev.bytes, dev.pos + 1, dev.pos + n)]

\* PdfInputDevice::Eof: the answers it can give, by the read position or by
\* the stream's end-of-file flag
PdfInputDevice_Eof(dev) == {dev.pos >= Len(dev.bytes), dev.eofbit}

\* PdfCanvasInputDevice::popNextDevice
popNextDevice(s) ==
    [s EXCEPT !.m_device = PdfInputDevice(Head(s.m_lstContents)),
              !.m_lstContents = Tail(s.m_lstContents)]

\* PdfCanvasInputDevice::tryGetNextDevice; first: the caller's device
\* pointer is still null
tryGetNextDevice(s, first) ==
    IF first THEN [s |-> s, ok |-> TRUE]
    ELSE IF Len(s.m_lstContents) = 0 THEN [s |-> s, ok |-> FALSE]
    ELSE [s |-> popNextDevice(s), ok |-> TRUE]

\* PdfCanvasInputDevice::PdfCanvasInputDevice, for a canvas whose /Contents
\* is an array of the streams given, or a dictionary with a stream (one
\* stream), or one without (none): the objects it can construct
PdfCanvasInputDevice(streams) ==
    LET s == [m_lstContents |-> streams, m_device |-> NullPtr, m_eof |-> FALSE]
    IN  IF Len(streams) = 0 THEN {[s EXCEPT !.m_eof = TRUE]}
        ELSE {[popNextDevice(s) EXCEPT !.m_eof = eof] :
                 eof \in PdfInputDevice_Eof(popNextDevice(s).m_device)}

RECURSIVE TryGetCharLoop(_, _)
\* the loop of PdfCanvasInputDevice::TryGetChar
TryGetCharLoop(s, first) ==
    LET next == tryGetNextDevice(s, first)
        r == PdfInputDevice_TryGetChar(next.s.m_device)
    IN  IF ~next.ok THEN [s |-> [s EXCEPT !.m_eof = TRUE], ok |-> FALSE]
        ELSE IF r.ok THEN [s |-> [next.s EXCEPT !.m_device = r.dev],
                           ok |-> TRUE, ch |-> r.ch]
        ELSE TryGetCharLoop([next.s EXCEPT !.m_device = r.dev], FALSE)

\* PdfCanvasInputDevice::TryGetChar
PdfCanvasInputDevice_TryGetChar(s) ==
    IF s.m_eof THEN [s |-> s, ok |-> FALSE] ELSE TryGetCharLoop(s, TRUE)

RECURSIVE LookLoop(_, _)
\* the loop of PdfCanvasInputDevice::Look
LookLoop(s, first) ==
    LET next == tryGetNextDevice(s, first)
        r == PdfInputDevice_Look(next.s.m_device)
    IN  IF ~next.ok THEN [s |-> [s EXCEPT !.m_eof = TRUE], ret |-> EOF]
        ELSE IF r.ret # EOF THEN [s |-> [next.s EXCEPT !.m_device = r.dev],
                                  ret |-> r.ret]
        ELSE LookLoop([next.s EXCEPT !.m_device = r.dev], FALSE)

\* PdfCanvasInputDevice::Look
PdfCanvasInputDevice_Look(s) ==
    IF s.m_eof THEN [s |-> s, ret |-> EOF] ELSE LookLoop(s, TRUE)

RECURSIVE ReadLoop(_, _, _, _)
\* the loop of PdfCanvasInputDevice::Read; buffer holds the readCount bytes
\* read so far
ReadLoop(s, first, buffer, size) ==
    LET next == tryGetNextDevice(s, first)
        r == PdfInputDevice_Read(next.s.m_device, size)
    IN  IF ~next.ok THEN [s |-> [s EXCEPT !.m_eof = TRUE], data |-> buffer]
        ELSE IF size - Len(r.data) = 0
        THEN [s |-> [next.s EXCEPT !.m_device = r.dev], data |-> buffer \o r.data]
        ELSE ReadLoop([next.s EXCEPT !.m_device = r.dev], FALSE,
                      buffer \o r.data, size - Len(r.data))

\* PdfCanvasInputDevice::Read: the bytes put into the buffer (the return
\* value is their number)
PdfCanvasInputDevice_Read(s, size) ==
    IF size = 0 \/ s.m_eof THEN [s |-> s, data |-> << >>]
    ELSE ReadLoop(s, TRUE, << >>, size)

\* the content streams of a canvas: up to MaxStreams streams of up to
\* MaxStreamLen bytes; byte j of stream i is 10 * i + j
CanvasContents ==
    UNION {{[i \in 1..n |-> [j \in 1..lengths[i] |-> 10 * i + j]] :
               lengths \in [1..n -> 0..MaxStreamLen]} : n \in 0..MaxStreams}

\* v holds the device, the streams it was constructed for, and the number of
\* bytes it has handed to its caller so far
InitCanvas ==
    /\ v \in UNION {{[device |-> s, contents |-> streams, delivered |-> 0] :
                        s \in PdfCanvasInputDevice(streams)} :
                     streams \in CanvasContents}
    /\ op = Call("construct", KeyNull, NoArg)
    /\ err = ErrOk
    /\ ret = NoArg
    /\ pc = << >>

OpTryGetChar ==
    LET r == PdfCanvasInputDevice_TryGetChar(v.device)
    IN  Step("TryGetChar", KeyNull, NoArg,
             [v EXCEPT !.device = r.s,
                       !.delivered = @ + (IF r.ok THEN 1 ELSE 0)],
             ErrOk, [f \in DOMAIN r \ {"s"} |-> r[f]])

OpLook ==
    LET r == PdfCanvasInputDevice_Look(v.device)
    IN  Step("Look", KeyNull, NoArg, [v EXCEPT !.device = r.s], ErrOk, r.ret)

OpRead ==
    \E size \in 0..MaxRead :
        LET r == PdfCanvasInputDevice_Read(v.device, size)
        IN  Step("Read", KeyNull, size,
                 [v EXCEPT !.device = r.s, !.delivered = @ + Len(r.data)],
                 ErrOk, r.data)

NextCanvas == OpTryGetChar \/ OpLook \/ OpRead

SpecCanvas == InitCanvas /\ [][NextCanvas]_vars

-----------------------------------------------------------------------------
(* Properties *)

\* the value a variant holds, whatever its flags: its kind and content with
\* every dirty and immutable flag cleared
ValueOf(x) == SetDirty(SetImmutable(x, FALSE), FALSE)

UnknownOrRaw == {ePdfDataType_Unknown, ePdfDataType_RawData}

\* the setter `call` is given a value the kind t accepts
Compatible(call, t) ==
    \/ call.name = "SetBool" /\ t = ePdfDataType_Bool
    \/ call.name \in {"SetNumber", "SetReal"}
          /\ t \in {ePdfDataType_Number, ePdfDataType_Real}
    \/ call.name = "SetName" /\ t = ePdfDataType_Name
    \/ call.name = "SetString"
          /\ t = (IF call.arg.hex THEN ePdfDataType_HexString ELSE ePdfDataType_String)

C2_ImmutableRejectsMutation ==
    [][/\ (op'.name = "SetImmutable" /\ op'.arg)
            => /\ v'.m_bImmutable
               /\ v'.m_eDataType = ePdfDataType_Dictionary => v'.pData.m_bImmutable
       /\ (v.m_bImmutable /\ Compatible(op', v.m_eDataType))
            => /\ err' = ePdfError_ChangeOnImmutable
               /\ v' = v
       /\ (v.m_bImmutable /\ v.m_eDataType = ePdfDataType_Dictionary
              /\ op'.name \in {"AddKey", "RemoveKey", "DictClear"})
            => /\ err' = ePdfError_ChangeOnImmutable
               /\ DOMAIN v'.pData.m_mapKeys = DOMAIN v.pData.m_mapKeys
               /\ v' = v]_vars

\* AddKey was refused on an immutable dictionary that holds a key
C2_Witness ==
    /\ op.name = "AddKey"
    /\ err = ePdfError_ChangeOnImmutable
    /\ v.m_bImmutable
    /\ v.m_eDataType = ePdfDataType_Dictionary
    /\ DOMAIN v.pData.m_mapKeys # {}

\* C3 as stated: an immutable variant stays immutable and keeps its value
\* under every operation but SetImmutable, and an assignment to it raises
\* ChangeOnImmutable.
C3_ImmutableUntilCleared ==
    [][(v.m_bImmutable /\ op'.name # "SetImmutable")
          => /\ v'.m_bImmutable
             /\ ValueOf(v') = ValueOf(v)
             /\ op'.name = "Assign" => err' = ePdfError_ChangeOnImmutable]_vars

\* IsDirty() is false for x, for the container it owns and for every
\* object stored in it, transitively
RECURSIVE AllClean(_)
AllClean(x) ==
    /\ ~IsDirty(x)
    /\ x.m_eDataType = ePdfDataType_Dictionary
          => /\ ~PdfDictionary_IsDirty(x.pData)
             /\ \A k \in DOMAIN x.pData.m_mapKeys : AllClean(x.pData.m_mapKeys[k])

\* C4: a dictionary variant is dirty after a successful setter on an object
\* stored in it (directly or in a stored dictionary), after AddKey, after a
\* RemoveKey that removed a key and after Clear of a non-empty dictionary;
\* after SetDirty(false) the variant, its dictionary and every object stored
\* in it, transitively, are clean.
C4_DirtyPropagation ==
    [][/\ (op'.name \in {"ChildSetBool", "ChildSetNumber", "GrandChildSetBool",
                          "ChildAddKey", "AddKey"} /\ err' = ErrOk)
            => IsDirty(v')
       /\ (op'.name = "RemoveKey" /\ err' = ErrOk /\ ret' = TRUE) => IsDirty(v')
       /\ (op'.name = "DictClear" /\ err' = ErrOk /\ DOMAIN v.pData.m_mapKeys # {})
            => IsDirty(v')
       /\ (op'.name = "SetDirty" /\ ~op'.arg) => AllClean(v')]_vars

\* the variant is dirty only through an object two levels down
C4_Witness ==
    /\ op.name = "GrandChildSetBool"
    /\ err = ErrOk
    /\ ~v.m_bDirty
    /\ ~v.pData.m_bDirty
    /\ ~v.pData.m_mapKeys[op.key].m_bDirty
    /\ ~v.pData.m_mapKeys[op.key].pData.m_bDirty
    /\ IsDirty(v)

\* C5 as stated: a copy-constructed clone of a constructed variant (other
\* than RawData) compares equal to it.
C5_CloneEqualsOriginal ==
    (op.name = "CloneEquals" /\ v.m_eDataType \notin UnknownOrRaw)
        => ret = EqTrue

\* both dictionaries hold the same keys with equal values
SameEntries(l, r) ==
    /\ DOMAIN l.m_mapKeys = DOMAIN r.m_mapKeys
    /\ \A k \in DOMAIN l.m_mapKeys : ValueOf(l.m_mapKeys[k]) = ValueOf(r.m_mapKeys[k])

\* C6 as stated: comparing two dictionaries returns, and returns true
\* exactly when both hold the same keys with equal values.
C6_DictionaryEquality ==
    (op.name = "Equals" /\ v.m_eDataType = ePdfDataType_Dictionary
                        /\ op.arg.m_eDataType = ePdfDataType_Dictionary)
        => ret = Truth(SameEntries(v.pData, op.arg.pData))

\* C7 as stated: AddKey(k, v1) followed by AddKey(k, v2) leaves the size as
\* it was after the first call, HasKey(k) holds and getKey(k) is a non-null
\* object equal to v2, for every name k.
C7_AddKeyTwice ==
    [][(op.name = "AddKey" /\ err = ErrOk /\ op'.name = "AddKey" /\ err' = ErrOk
          /\ op'.key = op.key)
          => /\ Cardinality(DOMAIN v'.pData.m_mapKeys)
                  = Cardinality(DOMAIN v.pData.m_mapKeys)
             /\ PdfDictionary_HasKey(v'.pData, op'.key)
             /\ PdfDictionary_getKey(v'.pData, op'.key) # NullPtr
             /\ ValueOf(PdfDictionary_getKey(v'.pData, op'.key)) = ValueOf(op'.arg)]_vars

\* C8 as stated: comparing two variants of different kinds, neither Unknown
\* nor RawData, returns false and raises nothing.
C8_DifferentKindsCompareFalse ==
    (op.name = "Equals" /\ v.m_eDataType # op.arg.m_eDataType
        /\ v.m_eDataType \notin UnknownOrRaw
        /\ op.arg.m_eDataType \notin UnknownOrRaw)
        => (ret = EqFalse /\ err = ErrOk)

\* C9 as stated: a comparison raises InvalidDataType whenever the left or
\* the right operand is Unknown or RawData.
C9_UnknownOrRawRaises ==
    (op.name = "Equals" /\ (v.m_eDataType \in UnknownOrRaw
                             \/ op.arg.m_eDataType \in UnknownOrRaw))
        => (ret = ePdfError_InvalidDataType /\ err = ePdfError_InvalidDataType)

\* C9, amended: a comparison raises InvalidDataType exactly when its left
\* operand is Unknown or RawData, whatever the right operand; when only the
\* right operand is Unknown or RawData it returns false.
C9_LeftUnknownOrRawRaises ==
    op.name = "Equals"
        => /\ v.m_eDataType \in UnknownOrRaw <=> err = ePdfError_InvalidDataType
           /\ (v.m_eDataType \notin UnknownOrRaw /\ op.arg.m_eDataType \in UnknownOrRaw)
                 => (ret = EqFalse /\ err = ErrOk)

\* a Bool was compared with a RawData on its right and the result was false
C9_Witness ==
    /\ op.name = "Equals"
    /\ v.m_eDataType = ePdfDataType_Bool
    /\ op.arg.m_eDataType = ePdfDataType_RawData
    /\ ret = EqFalse

\* C10: every call of an accessor or mutator on a variant created with a
\* load hook leaves the hook run exactly once and the load done; once the
\* load is done it stays done and the hook is not run again.
C10_HookRunsOnce ==
    [][/\ v'.hookCalls = 1
       /\ v'.m_bDelayedLoadDone
       /\ v.m_bDelayedLoadDone => v'.hookCalls = v.hookCalls]_vars

\* a reader was called after a setter had changed the loaded value, and the
\* hook has run once
C10_Witness ==
    /\ op.name \in Getters
    /\ v.m_bDirty
    /\ v.hookCalls = 1
    /\ v.m_bDelayedLoadDone

\* C11 as stated: IsDirty, SetDirty and SetImmutable on a variant whose
\* delayed load has not run leave the load done and the hook run once.
C11_FlagOperationsLoadFirst ==
    [][op'.name \in {"IsDirty", "SetDirty", "SetImmutable"}
          => (v'.m_bDelayedLoadDone /\ v'.hookCalls = 1)]_vars

\* C12 as stated: with two threads calling an accessor on a variant whose
\* load is pending, the hook is entered at most once, is entered exactly
\* once when both calls have returned, and no thread reads the content
\* while the hook is running.
C12_HookOnceUnderThreads ==
    /\ v.hookCalls <= 1
    /\ (\A t \in Threads : pc[t] = "done") => v.hookCalls = 1
    /\ \A t \in Threads : pc[t] = "done" => ~ret[t].inHook

\* C13 as stated: when the load hook calls an accessor on the variant it is
\* loading, the hook is not entered a second time and the inner call fails
\* with InternalLogic.
C13_ReentrantLoadRefused ==
    /\ v.hookCalls <= 1
    /\ op.arg = "returned to the hook" => err = ePdfError_InternalLogic

\* what the setter `call` leaves stored in x: its argument, converted to
\* the kind of x where the two numeric kinds meet
Stored(call, x) ==
    CASE call.name = "SetBool" -> x.bBoolValue = call.arg
      [] call.name = "SetNumber" ->
            IF x.m_eDataType = ePdfDataType_Real
            THEN x.dNumber = ToDouble(call.arg)
            ELSE x.nNumber = call.arg
      [] call.name = "SetReal" ->
            IF x.m_eDataType = ePdfDataType_Real
            THEN x.dNumber = call.arg
            ELSE x.nNumber = Floor(call.arg)
      [] call.name \in {"SetName", "SetString"} -> x.pData = call.arg

\* C14: on a mutable variant a setter whose value the kind does not accept
\* raises InvalidDataType and changes nothing; one whose value the kind
\* accepts returns normally, stores the value, keeps the kind and sets the
\* dirty flag.
C14_SetterKindCheck ==
    [][(op'.name \in {"SetBool", "SetNumber", "SetReal", "SetName", "SetString"}
          /\ ~v.m_bImmutable)
         => IF Compatible(op', v.m_eDataType)
            THEN /\ err' = ErrOk
                 /\ Stored(op', v')
                 /\ v'.m_eDataType = v.m_eDataType
                 /\ v'.m_bDirty
            ELSE /\ err' = ePdfError_InvalidDataType
                 /\ v' = v]_vars

\* SetString refused a hex string on a clean literal-string variant
C14_Witness ==
    /\ op.name = "SetString"
    /\ op.arg.hex
    /\ err = ePdfError_InvalidDataType
    /\ v.m_eDataType = ePdfDataType_String
    /\ ~v.m_bImmutable
    /\ ~v.m_bDirty

\* C15 as stated: on a mutable variant SetReference stores the reference
\* and sets dirty when the kind is Reference, and otherwise raises
\* InvalidDataType and changes nothing.
C15_SetReferenceOnlyOnReference ==
    [][(op'.name = "SetReference" /\ ~v.m_bImmutable)
         => IF v.m_eDataType = ePdfDataType_Reference
            THEN /\ err' = ErrOk
                 /\ v'.pData = op'.arg
                 /\ v'.m_bDirty
            ELSE /\ err' = ePdfError_InvalidDataType
                 /\ v' = v]_vars

\* C16 as stated: GetNumber on a Real returns the value truncated toward
\* zero, and GetReal on a Number returns the number converted.
C16_GetNumberTruncatesTowardZero ==
    /\ (op.name = "GetNumber" /\ v.m_eDataType = ePdfDataType_Real)
          => /\ err = ErrOk
             /\ ret = IF v.dNumber >= 0 THEN v.dNumber \div RealScale
                                        ELSE -((-v.dNumber) \div RealScale)
    /\ (op.name = "GetReal" /\ v.m_eDataType = ePdfDataType_Number)
          => /\ err = ErrOk
             /\ ret = v.nNumber * RealScale

\* the keys named by the tokens of an output, in the order they were sent
KeysOf(out) ==
    LET keyTokens == SelectSeq(out, LAMBDA tok :
                         \/ DOMAIN tok = {"name"}
                         \/ DOMAIN tok = {"lit"} /\ tok.lit \in {"/Type", "/Type "})
    IN  [i \in DOMAIN keyTokens |->
            IF DOMAIN keyTokens[i] = {"name"} THEN keyTokens[i].name ELSE KeyType]

\* C17: Write without a key_stop sends `<<` first and `>>` last, names
\* every key of the dictionary exactly once, /Type before all others and
\* the others in ascending byte order; an empty dictionary written in
\* compact mode gives exactly `<<` `>>`.
C17_WriteOrder ==
    (op.name = "WriteTo" /\ op.key = KeyNull)
        => LET m == v.pData.m_mapKeys
               ks == KeysOf(ret)
           IN  /\ err = ErrOk
               /\ Head(ret) \in {[lit |-> "<<"], [lit |-> "<<\n"]}
               /\ ret[Len(ret)] = [lit |-> ">>"]
               /\ Len(ks) = Cardinality(DOMAIN m)
               /\ {ks[i] : i \in DOMAIN ks} = DOMAIN m
               /\ KeyType \in DOMAIN m => ks[1] = KeyType
               /\ \A i, j \in DOMAIN ks :
                     (i < j /\ ks[i] # KeyType)
                        => (ks[j] # KeyType /\ NameLess(ks[i], ks[j]))
               /\ (DOMAIN m = {} /\ op.arg = {ePdfWriteMode_Compact})
                     => ret = <<[lit |-> "<<"], [lit |-> ">>"]>>

\* a dictionary holding /A, /Type and /a was written: /Type came first
C17_Witness ==
    /\ op.name = "WriteTo"
    /\ op.key = KeyNull
    /\ KeysOf(ret) = <<KeyType, <<65>>, <<97>>>>

\* C18 as stated: findKeyParent returns for every object graph; it returns
\* the local value when the key is present locally, and null when the key
\* is in neither dictionary of a /Parent cycle.
C18_FindKeyParentTerminates ==
    op.name = "findKeyParent"
        => LET d == v[op.arg].pData
           IN  /\ ret # NeverReturns
               /\ op.key \in DOMAIN d.m_mapKeys => ret = d.m_mapKeys[op.key]
               /\ (\A n \in ObjectNumbers : op.key \notin DOMAIN v[n].pData.m_mapKeys)
                     => ret = NullPtr

\* C19: when one of the six tables head, hhea, loca, maxp, glyf, hmtx is
\* missing from the input font's table directory (also when the other five
\* are present), BuildFont fails, and the error is UnsupportedFontFormat.
C19_MissingTableIsUnsupportedFormat ==
    (op.name = "BuildFont" /\ ~(ReqTable_all \subseteq TagsOf(v)))
        => err = PdfErrorCode_UnsupportedFontFormat

RECURSIVE Closure(_, _)
\* the glyphs reachable from `gids` through the component lists of the font
Closure(font, gids) ==
    LET more == gids \cup UNION {{font.components[g][i] :
                                    i \in DOMAIN font.components[g]} : g \in gids}
    IN  IF more = gids THEN gids ELSE Closure(font, more)

\* the glyph ids of a gidList, with glyph 0
Wanted(gidList) == {0} \cup {gidList[i] : i \in DOMAIN gidList}

\* C20: after BuildFont on a font holding the six tables, with a gidList of
\* in-range GIDs (glyph 0 and repeated GIDs allowed), the loaded glyphs are
\* the compound-glyph closure of gidList and glyph 0, ordered_gids lists each
\* of them exactly once, and maxp.numGlyphs, hhea.numOfLongHorMetrics, the
\* number of hmtx entries and the number of loca entries minus one all
\* equal the size of the closure.
C20_GlyphCountConsistent ==
    (op.name = "BuildFont" /\ err = ErrOk /\ ReqTable_all \subseteq TagsOf(v))
        => LET closure == Closure(v, Wanted(op.arg))
               ordered == ret.s.m_orderedGIDs
               size == Cardinality(closure)
           IN  /\ DOMAIN ret.s.m_glyphDatas = closure
               /\ {ordered[i] : i \in DOMAIN ordered} = closure
               /\ Len(ordered) = size
               /\ ret.out.numGlyphs = size
               /\ ret.out.numOfLongHorMetrics = size
               /\ Len(ret.out.hmtx) = size
               /\ Len(ret.out.loca) - 1 = size

RECURSIVE AppendNew(_, _, _)
\* `ordered` with those of components[i..] appended that it does not hold
AppendNew(ordered, components, i) ==
    IF i > Len(components) THEN ordered
    ELSE AppendNew(IF \E j \in DOMAIN ordered : ordered[j] = components[i]
                   THEN ordered ELSE Append(ordered, components[i]),
                   components, i + 1)

RECURSIVE Discovered(_, _, _)
\* the glyphs of `ordered`, followed by the components the closure walk finds
\* from position i on: the components of a glyph come before the components
\* of its components
Discovered(font, ordered, i) ==
    IF i > Len(ordered) THEN ordered
    ELSE Discovered(font, AppendNew(ordered, font.components[ordered[i]], 1), i + 1)

\* the gidList names no glyph twice and does not name glyph 0
Distinct(gidList) ==
    \A i \in DOMAIN gidList :
        gidList[i] # 0 /\ \A j \in DOMAIN gidList : gidList[i] = gidList[j] => i = j

\* C21: new glyph ids are given in this order: glyph 0, then the caller's
\* GIDs in the order given, then the compound components in the order the
\* closure walk discovered them (a compound glyph's components before the
\* components of its components).
C21_DiscoveryOrder ==
    (op.name = "BuildFont" /\ err = ErrOk /\ Distinct(op.arg))
        => ret.s.m_orderedGIDs = Discovered(v, <<0>> \o op.arg, 1)

\* the integer log2 of n, rounded down
FloorLog2(n) == CHOOSE k \in 0..16 : Pow2(k) <= n /\ n < Pow2(k + 1)

\* C27: for every number n of retained tables the font directory holds
\* scaler 0x00010000, numTables = n, searchRange = the largest power of two
\* not exceeding n * 16, entrySelector = log2(searchRange / 16) (the integer
\* log2 of n, rounded down) and rangeShift = n * 16 - searchRange.
C27_FontDirectoryHeader ==
    (op.name = "BuildFont" /\ err = ErrOk /\ ReqTable_all \subseteq TagsOf(v))
        => LET n == Len(ret.out.tables)
           IN  /\ ret.out.scaler = <<0, 1, 0, 0>>
               /\ ret.out.numTables = n
               /\ ret.out.searchRange = 16 * Pow2(FloorLog2(n))
               /\ ret.out.entrySelector = FloorLog2(n)
               /\ ret.out.rangeShift = n * 16 - ret.out.searchRange

\* the part of an output that comes before the token naming key k
Before(out, k) ==
    LET at == {i \in DOMAIN out :
                  \/ out[i] = [name |-> k]
                  \/ k = KeyType /\ out[i] \in {[lit |-> "/Type"], [lit |-> "/Type "]}}
    IN  IF at = {} THEN out
        ELSE SubSeq(out, 1, (CHOOSE i \in at : \A j \in at : i <= j) - 1)

\* C28 as stated: Write with a key_stop k sends `<<` and the entries that
\* precede k in emission order, and neither k's entry nor any after it; when
\* k is /Type nothing follows `<<`; when k is not a key of the dictionary (or
\* is the null/empty name) the output is that of Write without a key_stop.
C28_KeyStop ==
    (op.name = "WriteTo" /\ err = ErrOk)
        => LET m == v.pData.m_mapKeys
               full == WriteOutput(v, op.arg, KeyNull)
           IN  /\ (op.key # KeyNull /\ op.key \in DOMAIN m)
                      => ret = Before(full, op.key)
               /\ op.key = KeyType => Len(ret) = 1
               /\ (op.key = KeyNull \/ op.key \notin DOMAIN m) => ret = full

\* C28, amended: as stated, but a key_stop of /Type ends the output after
\* `<<` also when the dictionary has no /Type entry; the output is that of
\* Write without a key_stop when k is the null/empty name or a name other
\* than /Type that is not a key of the dictionary.
C28_KeyStopTypeAlwaysStops ==
    (op.name = "WriteTo" /\ err = ErrOk)
        => LET m == v.pData.m_mapKeys
               full == WriteOutput(v, op.arg, KeyNull)
           IN  /\ Head(ret) \in {[lit |-> "<<"], [lit |-> "<<\n"]}
               /\ (op.key # KeyNull /\ op.key \in DOMAIN m)
                      => /\ ret = Before(full, op.key)
                         /\ Len(ret) < Len(full)
                         /\ \A i \in DOMAIN KeysOf(ret) : KeysOf(ret)[i] # op.key
               /\ op.key = KeyType => Len(ret) = 1
               /\ (op.key = KeyNull \/ (op.key \notin DOMAIN m /\ op.key # KeyType))
                      => (ret = full /\ ret[Len(ret)] = [lit |-> ">>"])

\* a dictionary holding /A, /Type and /a was written with key_stop /a:
\* /Type and /A were sent, /a and `>>` were not
C28_Witness ==
    /\ op.name = "WriteTo"
    /\ err = ErrOk
    /\ op.key = <<97>>
    /\ KeysOf(ret) = <<KeyType, <<65>>>>
    /\ ret[Len(ret)] # [lit |-> ">>"]

RECURSIVE Concatenation(_)
\* the bytes of the streams, one stream after the other
Concatenation(streams) ==
    IF streams = << >> THEN << >>
    ELSE Head(streams) \o Concatenation(Tail(streams))

WalkDone == pc = << >>

\* C29: the closure walk terminates for every font, also when compound
\* glyphs name each other cyclically or a glyph names itself; each glyph id
\* is loaded at most once; and a component or caller GID at or beyond the
\* glyph count stops the walk with InternalLogic.
C29_WalkTerminates ==
    /\ [](/\ \A i, j \in DOMAIN v.loads : v.loads[i] = v.loads[j] => i = j
          /\ DOMAIN v.s.m_glyphDatas = {v.loads[i] : i \in DOMAIN v.loads}
          /\ Len(pc) <= v.s.m_glyphCount + 1
          /\ (op.name = "LoadGID" /\ op.arg >= v.s.m_glyphCount)
                => (err = ePdfError_InternalLogic /\ WalkDone)
          /\ (op.name = "LoadGID" /\ op.arg < v.s.m_glyphCount) => err = ErrOk)
    /\ <>WalkDone

\* a walk over the cycle 1 -> 2 -> 1 has ended normally with both glyphs
\* loaded once
C29_Witness ==
    /\ WalkDone
    /\ err = ErrOk
    /\ v.s.m_device.components[1] = <<2>>
    /\ v.s.m_device.components[2] = <<1>>
    /\ v.loads = <<0, 1, 2>>

\* C30: for every glyph of ordered_gids the pair written to the output hmtx
\* at the glyph's new index is the glyph's advance width and left side
\* bearing in the input font, also when the input's numOfLongHorMetrics is
\* smaller than its glyph count.
C30_HmtxPairs ==
    (op.name = "BuildFont" /\ err = ErrOk /\ ReqTable_all \subseteq TagsOf(v))
        => \A i \in DOMAIN ret.s.m_orderedGIDs :
              ret.out.hmtx[i] =
                 <<AdvanceWidth(v.numberOfHMetrics, ret.s.m_orderedGIDs[i]),
                   LeftSideBearing(ret.s.m_orderedGIDs[i])>>

RECURSIVE GlyfLength(_)
\* the unpadded length of an output glyf table
GlyfLength(glyf) ==
    IF glyf = << >> THEN 0 ELSE Head(glyf).length + GlyfLength(Tail(glyf))

\* an output loca table, decoded in the format of head.indexToLocFormat
DecodedLoca(font, loca) ==
    [i \in DOMAIN loca |-> IF font.indexToLocFormat = 0 THEN 2 * loca[i] ELSE loca[i]]

\* C26: the output loca table, decoded in the format given by
\* head.indexToLocFormat, starts at 0, is non-decreasing, has entry i+1
\* minus entry i equal to the byte length of the i-th glyph of ordered_gids,
\* and ends with an entry equal to the unpadded length of the output glyf
\* table, in short format too whatever the glyphs' sizes.
C26_LocaOffsets ==
    (op.name = "BuildFont" /\ err = ErrOk /\ ReqTable_all \subseteq TagsOf(v))
        => LET loca == DecodedLoca(v, ret.out.loca)
               ordered == ret.s.m_orderedGIDs
           IN  /\ Len(loca) = Len(ordered) + 1
               /\ loca[1] = 0
               /\ \A i \in DOMAIN ordered :
                     /\ loca[i] <= loca[i + 1]
                     /\ loca[i + 1] - loca[i] = v.glyphLength[ordered[i]]
               /\ loca[Len(loca)] = GlyfLength(ret.out.glyf)

\* C24: in the output glyf table a simple glyph's bytes are its bytes in the
\* input; a compound glyph's bytes are its input bytes except that the
\* glyph-index field of every component record (2 bytes after the record's
\* flags) holds the position in ordered_gids of the glyph the component
\* named; no other byte is altered.
C24_GlyfBytes ==
    (op.name = "BuildFont" /\ err = ErrOk /\ ReqTable_all \subseteq TagsOf(v))
        => LET ordered == ret.s.m_orderedGIDs
               written == SelectSeq(ordered, LAMBDA gid : v.glyphLength[gid] # 0)
           IN  /\ Len(ret.out.glyf) = Len(written)
               /\ \A i \in DOMAIN ret.out.glyf :
                     LET glyph == ret.out.glyf[i]
                         named == v.components[glyph.gid]
                     IN  /\ glyph.gid = written[i]
                         /\ glyph.length = v.glyphLength[glyph.gid]
                         /\ Len(glyph.components) = Len(named)
                         /\ \A k \in DOMAIN named :
                               /\ glyph.components[k].Offset =
                                     10 + RecordOffset(v.flags[glyph.gid], k) + 2
                               /\ glyph.components[k].GlyphIndex + 1 \in DOMAIN ordered
                               /\ ordered[glyph.components[k].GlyphIndex + 1] = named[k]


(* ---- C22  the font checksum ----                                        *)

RECURSIVE WordChecksum(_, _, _)
\* the sum modulo 2^32 of the big-endian 32-bit words of the size bytes of
\* buffer after offset, zero bytes added to a multiple of four
WordChecksum(buffer, offset, size) ==
    IF size <= 0 THEN UInt32(0)
    ELSE LET byte(k) == IF k <= size THEN buffer[offset + k] ELSE 0
         IN  AddUInt32([hi |-> byte(1) * 256 + byte(2),
                        lo |-> byte(3) * 256 + byte(4)],
                       WordChecksum(buffer, offset + 4, size - 4))

\* WriteTables returned without an error
Written == op.name = "WriteTables" /\ err = ErrOk

\* C22: with the checkSumAdjustment written into head, the big-endian-word
\* checksum of the whole output file is 0xB1B0AFBA
C22_FontChecksum ==
    Written => WordChecksum(ret, 0, Len(ret)) = ChecksumMagic

(* ---- C25  the layout of the tables and their directory records ----     *)

\* the uint32 at offset of the buffer
ReadUInt32BE(buffer, offset) ==
    [hi |-> buffer[offset + 1] * 256 + buffer[offset + 2],
     lo |-> buffer[offset + 3] * 256 + buffer[offset + 4]]

\* the directory record of table i of the output: its offset and length
\* as numbers, its checksum as a uint32
DirectoryRecord(buffer, i) ==
    LET at == 12 + (i - 1) * 16
    IN  [Tag |-> SubSeq(buffer, at + 1, at + 4),
         Checksum |-> ReadUInt32BE(buffer, at + 4),
         Offset |-> ReadUInt32BE(buffer, at + 8).hi * 65536
                        + ReadUInt32BE(buffer, at + 8).lo,
         Length |-> ReadUInt32BE(buffer, at + 12).hi * 65536
                        + ReadUInt32BE(buffer, at + 12).lo]

\* the tables are in the order of m_tables, each starts at a multiple of
\* four after the directory, holds the bytes written for it (head but for
\* its checkSumAdjustment) and is followed by zero bytes up to the next
\* multiple of four, where the next table or the end of the file is; the
\* record holds the start and the length without the padding
LayoutOf(buffer, contents) ==
    /\ Len(buffer) % 4 = 0
    /\ \A i \in DOMAIN contents :
          LET rec == DirectoryRecord(buffer, i)
              next == IF i = Len(contents) THEN Len(buffer)
                      ELSE DirectoryRecord(buffer, i + 1).Offset
          IN  /\ rec.Tag = TagBytes(contents[i].Tag)
              /\ rec.Offset % 4 = 0
              /\ rec.Offset >= 12 + 16 * Len(contents)
              /\ i = 1 => rec.Offset = 12 + 16 * Len(contents)
              /\ rec.Length = Len(contents[i].bytes)
              /\ next = ((rec.Offset + rec.Length + 3) \div 4) * 4
              /\ \A k \in 1..rec.Length :
                    \/ contents[i].Tag = "head" /\ k \in 5..8
                    \/ buffer[rec.Offset + k] = contents[i].bytes[k]
              /\ \A k \in (rec.Offset + rec.Length + 1)..next : buffer[k] = 0

\* the record of every table but head holds the big-endian-word checksum
\* of the table's bytes; head's holds the one of head with a zero
\* checkSumAdjustment
ChecksumsOf(buffer, contents) ==
    \A i \in DOMAIN contents :
        LET rec == DirectoryRecord(buffer, i)
        IN  rec.Checksum =
                IF contents[i].Tag = "head"
                THEN WordChecksum(WriteUInt32BE(contents[i].bytes, 4, UInt32(0)),
                                  0, rec.Length)
                ELSE WordChecksum(buffer, rec.Offset, rec.Length)

\* C25: the tables are written in order, each at a multiple of four and
\* padded with zero bytes to a multiple of four, and the directory record
\* of each holds its start offset, its length without the padding and the
\* big-endian-word checksum of its bytes
C25_TableLayout ==
    Written => LayoutOf(ret, v.contents) /\ ChecksumsOf(ret, v.contents)

=========================================================================
